---- MODULE Spec2Model ----
(***************************************************************************)
(* Model of the placeholder resolution and multi-repository action engine  *)
(* of gh-repository-management-tool (src/src/action_processing.py and      *)
(* src/src/github_utils.py).                                               *)
(*                                                                         *)
(* Strings are sequences of atoms.  An atom is "{", "}", " " or a word (a  *)
(* run of characters holding no brace and no whitespace).  The empty       *)
(* string is <<>>.  A blob hash is derived from the content it names.      *)
(*                                                                         *)
(* The repository host (PyGithub / GitHub REST) is the environment: its    *)
(* state for the repository being processed is the variable host, every    *)
(* call to it is a step of its own whose outcome is drawn from what the    *)
(* host can answer in that state, and other clients of the host act        *)
(* between the steps (the Env actions).                                    *)
(***************************************************************************)
EXTENDS Integers, Sequences, FiniteSets, TLC

\* ------------------------------------------------------------------ bounds
\* Number of repositories of a batch.
MaxRepos == 2
\* Number of steps other clients of the host take during one batch.
MaxEnv == 1
\* Host calls of a batch that fail for no reason of the repository's state.
MaxFaults == 1

\* ------------------------------------------------------------------ state
VARIABLES
    kind,     \* the action of the batch: "remove", "update" or "add"
    cfg,      \* action_config_from_form
    defs,     \* defined_placeholders
    repos,    \* selected_repo_infos
    ri,       \* index of the repository being processed (0: none yet)
    pc,       \* position of the executor
    results,  \* batch_action_results
    loc,      \* the executor's locals for the repository being processed
    calls,    \* host calls made for the repository being processed
    cb,       \* locals of create_branch
    uf,       \* locals of update_file
    prf,      \* locals of create_pull_request
    host,     \* the host's state of the repository being processed
    envLeft,    \* steps left to the other clients of the host
    faultsLeft  \* failures the host may still answer with of its own


\* ------------------------------------------------------------------- text
Str(w) == <<w>>
Tok(name) == <<"{", "{", name, "}", "}">>
TokSp(name) == <<"{", "{", " ", name, " ", "}", "}">>

RECURSIVE SkipSpaces(_, _)
SkipSpaces(t, i) ==
    IF i <= Len(t) /\ t[i] = " " THEN SkipSpaces(t, i + 1) ELSE i

RECURSIVE SkipName(_, _)
SkipName(t, i) ==
    IF i <= Len(t) /\ t[i] # "}" /\ t[i] # " " THEN SkipName(t, i + 1) ELSE i

\* The match of \{\{\s*([^}\s]+)\s*\}\} that starts at position i, if any.
MatchAt(t, i) ==
    IF i + 1 <= Len(t) /\ t[i] = "{" /\ t[i + 1] = "{"
    THEN LET s  == SkipSpaces(t, i + 2)
             e  == SkipName(t, s)
             s2 == SkipSpaces(t, e)
         IN  IF e > s /\ s2 + 1 <= Len(t) /\ t[s2] = "}" /\ t[s2 + 1] = "}"
             THEN [ok |-> TRUE, name |-> SubSeq(t, s, e - 1), next |-> s2 + 2]
             ELSE [ok |-> FALSE, name |-> <<>>, next |-> i]
    ELSE [ok |-> FALSE, name |-> <<>>, next |-> i]

RECURSIVE SubstFrom(_, _, _)
SubstFrom(t, m, i) ==
    IF i > Len(t) THEN <<>>
    ELSE LET r == MatchAt(t, i)
         IN  IF r.ok
             THEN (IF r.name \in DOMAIN m THEN m[r.name]
                                          ELSE SubSeq(t, i, r.next - 1))
                  \o SubstFrom(t, m, r.next)
             ELSE <<t[i]>> \o SubstFrom(t, m, i + 1)

\* Faulty variants of the substitution: a token whose name is not a key loses
\* its inner whitespace, or is dropped.
RECURSIVE SubstStripFrom(_, _, _)
SubstStripFrom(t, m, i) ==
    IF i > Len(t) THEN <<>>
    ELSE LET r == MatchAt(t, i)
         IN  IF r.ok
             THEN (IF r.name \in DOMAIN m THEN m[r.name]
                   ELSE <<"{", "{">> \o r.name \o <<"}", "}">>)
                  \o SubstStripFrom(t, m, r.next)
             ELSE <<t[i]>> \o SubstStripFrom(t, m, i + 1)
subst_strips_unknown(t, m) == SubstStripFrom(t, m, 1)
RECURSIVE SubstDropFrom(_, _, _)
SubstDropFrom(t, m, i) ==
    IF i > Len(t) THEN <<>>
    ELSE LET r == MatchAt(t, i)
         IN  IF r.ok
             THEN (IF r.name \in DOMAIN m THEN m[r.name] ELSE <<>>)
                  \o SubstDropFrom(t, m, r.next)
             ELSE <<t[i]>> \o SubstDropFrom(t, m, i + 1)
subst_drops_unknown(t, m) == SubstDropFrom(t, m, 1)

process_placeholders_in_string(t, m) == SubstFrom(t, m, 1)

\* The matches re.sub finds in t from position i on, left to right and not
\* overlapping: where each starts, where the scan goes on, and its name.
RECURSIVE Scan(_, _)
Scan(t, i) ==
    IF i > Len(t) THEN <<>>
    ELSE LET r == MatchAt(t, i)
         IN  IF r.ok
             THEN <<[start |-> i, next |-> r.next, name |-> r.name]>>
                  \o Scan(t, r.next)
             ELSE Scan(t, i + 1)

\* str.strip(): leading and trailing whitespace removed.
RECURSIVE LStrip(_)
LStrip(t) == IF t # <<>> /\ Head(t) = " " THEN LStrip(Tail(t)) ELSE t
RECURSIVE RStrip(_)
RStrip(t) ==
    IF t # <<>> /\ t[Len(t)] = " " THEN RStrip(SubSeq(t, 1, Len(t) - 1)) ELSE t
Strip(t) == RStrip(LStrip(t))

\* Whether needle occurs in hay at position i.
OccursAt(hay, needle, i) ==
    /\ i + Len(needle) - 1 <= Len(hay)
    /\ SubSeq(hay, i, i + Len(needle) - 1) = needle
Contains(hay, needle) == \E i \in 1..(Len(hay) + 1) : OccursAt(hay, needle, i)

\* ----------------------------------------------------------------- inputs
RepoNames == <<"r1", "r2", "r3", "r4">>
DefaultBranches == <<"main", "master", "main", "master">>
\* github_utils.Repository: the fields the engine reads.
Repo(i) == [name |-> Str(RepoNames[i]),
            full_name |-> <<"o/", RepoNames[i]>>,
            default_branch |-> Str(DefaultBranches[i])]
RepoLists == {[i \in 1..n |-> Repo(i)] : n \in 1..MaxRepos}

TimestampStr == Str("TS")

\* File contents and paths of the repositories of the model.
OldPath == Str("old.md")
OtherPath == Str("b.md")
VersionPath == Str("VERSION")
ConfigPath == Str("config.json")
\* A directory that every branch of a repository holds.
DocsDir == Str("docs")
ContentA == <<"foo", " ", "bar">>
ContentB == <<"foo", " ", "baz">>
VersionContent == <<"path:", " ", "old.md">>
\* The JSON file of the repositories, as tokens.
JsonMapText == <<"{", "version", ":", "1.2", "...", "}">>
CleanupBranch == Str("cleanup")
\* A value of the form that is None, not a string.
NoneValue == <<"<None>">>

\* A regular expression of the model: the literal lit, followed when
\* groups = 1 by whitespace and one capture group, lit\s(\S+); in an optional
\* pattern that tail may be absent, lit(?:\s(\S+))?.  lit = "" is the empty
\* pattern.
Pattern(lit, groups) == [lit |-> lit, groups |-> groups, optional |-> FALSE]
OptionalPattern(lit) == [lit |-> lit, groups |-> 1, optional |-> TRUE]

\* A placeholder definition (one entry of st.session_state.placeholders).
PhDef(name, path, method, lit, groups, gi) ==
    [name |-> name, file_path |-> path, method |-> method,
     config |-> [pattern |-> Pattern(lit, groups), group_index |-> gi]]
DefPath == PhDef(Str("p"), VersionPath, "Regex", "path:", 1, 1)
DefEmptyName == PhDef(<<>>, VersionPath, "Regex", "path:", 1, 1)
DefNoMatch == PhDef(Str("p"), VersionPath, "Regex", "version:", 1, 1)
\* A definition that carries the name of a built-in placeholder.
DefRepoName == PhDef(Str("repo_name"), VersionPath, "Regex", "path:", 1, 1)
\* A definition whose pattern matches with its group left out: the extractor
\* returns no value and the placeholder stands for the empty string.
DefEmpty ==
    [name |-> Str("e"), file_path |-> VersionPath, method |-> "Regex",
     config |-> [pattern |-> OptionalPattern("old.md"), group_index |-> 1]]
\* Definitions that read the target file: its first word, and the whole match.
DefFirst == PhDef(Str("z"), OldPath, "Regex", "foo", 0, 0)
DefLast == PhDef(Str("y"), OldPath, "Regex", "foo", 0, 0)
\* A definition whose path leads to a null node of the JSON file.
DefJsonNull ==
    [name |-> Str("j"), file_path |-> ConfigPath, method |-> "JSON Path",
     config |-> [jsonpath_expression |-> <<"meta", ".", "tag">>]]
DefLists == { <<>>, <<DefPath>>, <<DefEmptyName, DefPath>> }

\* --------------------------------------------------------- repository host
\* The hash of a blob is a function of its content.
Sha(content) == <<"sha:">> \o content
NoSha == <<>>

HasBranch(h, b) == b \in DOMAIN h.heads
HasFile(h, b, p) == <<b, p>> \in DOMAIN h.files
OpenPrs(h, head, base) == {q \in h.prs : q.head = head /\ q.base = base}

\* The files of branch src, seen from branch b.
CopyFiles(h, src, b) ==
    LET ps == {k[2] : k \in {k2 \in DOMAIN h.files : k2[1] = src}}
    IN  [k \in {<<b, p>> : p \in ps} |-> h.files[<<src, k[2]>>]]

\* Files of h without those whose key is in ks.
DropFiles(h, ks) == [k \in (DOMAIN h.files) \ ks |-> h.files[k]]

\* A commit on branch b: its head moves and, unless b is the base, b holds
\* commits the base has not.
Committed(h, b, base, files) ==
    [h EXCEPT !.files = files,
              !.heads = [h.heads EXCEPT ![b] = @ + 1],
              !.ahead = IF b = base THEN @ ELSE @ \cup {b}]

\* repo.create_git_ref(refs/heads/b, sha of src).
HostCreateRef(h, b, src, sha) ==
    [h EXCEPT !.heads = (b :> sha) @@ h.heads,
              !.files = CopyFiles(h, src, b) @@ h.files]

\* repo.delete_file / update_file / create_file, accepted by the host.
HostDelete(h, b, base, p) == Committed(h, b, base, DropFiles(h, {<<b, p>>}))
HostPut(h, b, base, p, content) ==
    Committed(h, b, base, (<<b, p>> :> content) @@ h.files)

\* repo.create_pull, accepted by the host.
HostCreatePull(h, head, base) ==
    [h EXCEPT !.prs = @ \cup {[head |-> head, base |-> base, url |-> h.nextUrl]},
              !.nextUrl = @ + 1]

\* The failures the host may add to the answer the state calls for.
Injected(S) == IF faultsLeft > 0 THEN S ELSE {}
\* An answer the state does not call for uses up one failure.
Charge(ans, natural) ==
    faultsLeft' = IF ans \in natural THEN faultsLeft ELSE faultsLeft - 1

\* A faulty variant of the lookup below: no branch is ever found.
GetRef_absent(h, b) == {"404"}
\* What the host answers to repo.get_branch(b) / repo.get_git_ref(heads/b).
GetRef(h, b) == IF HasBranch(h, b) THEN {"ok"} ELSE {"404"}
\* What the host answers to repo.create_git_ref(refs/heads/b).
CreateRef(h, b) == IF HasBranch(h, b) THEN {"422"} ELSE {"ok"}
\* What the host answers to repo.get_contents(p, ref=b).
GetContents(h, b, p) ==
    IF HasBranch(h, b) /\ p = DocsDir THEN {"dir"}
    ELSE IF HasBranch(h, b) /\ HasFile(h, b, p) THEN {"ok"} ELSE {"404"}
GetContentsAnswers(h, b, p) == GetContents(h, b, p) \cup Injected({"err"})

\* What the host answers to a write of p on b that names the hash sha
\* (NoSha: a create).  409 is also the host's answer when the branch moved
\* while the write was in flight.
Write(h, b, p, sha) ==
    IF ~HasBranch(h, b) THEN {"404"}
    ELSE IF sha = NoSha
         THEN (IF HasFile(h, b, p) THEN {"422"} ELSE {"ok"})
         ELSE (IF ~HasFile(h, b, p) THEN {"404"}
               ELSE IF Sha(h.files[<<b, p>>]) = sha THEN {"ok"} ELSE {"409"})
WriteAnswers(h, b, p, sha) == Write(h, b, p, sha) \cup Injected({"409", "err"})

\* What the host answers to repo.create_pull(head, base).
CreatePull(h, head, base) ==
    IF OpenPrs(h, head, base) # {} THEN {"exists"}
    ELSE IF ~HasBranch(h, head) THEN {"err"}
    ELSE IF head \notin h.ahead THEN {"nocommits"}
    ELSE {"ok"}
CreatePullAnswers(h, head, base) == CreatePull(h, head, base) \cup Injected({"err"})

\* The state of a repository on the host when the batch reaches it: the
\* default branch base, with or without the placeholder source file and the
\* target files, and the branch "cleanup" absent ("none"), level with base
\* ("same"), cut before the target files came to base ("bare"), holding a
\* commit of its own ("ahead") or holding one under an open pull request
\* ("pr").
MkHost(base, ver, t1, t2, pre) ==
    LET bf == (IF ver THEN (<<base, VersionPath>> :> VersionContent) ELSE <<>>)
              @@ (IF ver THEN (<<base, ConfigPath>> :> JsonMapText) ELSE <<>>)
              @@ (IF t1 THEN (<<base, OldPath>> :> ContentA) ELSE <<>>)
              @@ (IF t2 THEN (<<base, OtherPath>> :> ContentA) ELSE <<>>)
        h0 == [heads |-> (base :> 1), files |-> bf, ahead |-> {},
               prs |-> {}, nextUrl |-> 1]
        h1 == HostCreateRef(h0, CleanupBranch, base, 1)
        h2 == HostPut(h1, CleanupBranch, base, OldPath, ContentB)
    IN  CASE pre = "none"  -> h0
          [] pre = "same"  -> h1
          [] pre = "bare"  ->
               [h1 EXCEPT !.files = DropFiles(h1, {<<CleanupBranch, OldPath>>,
                                                   <<CleanupBranch, OtherPath>>})]
          [] pre = "ahead" -> h2
          [] OTHER         -> HostCreatePull(h2, CleanupBranch, base)
PreStates == {"none", "same", "bare", "ahead", "pr"}

\* ------------------------------------------------- results of the helpers
\* github_utils.FileContentResult of get_file_content, from the host's answer.
get_file_content(ans, h, b, p) ==
    IF ans = "ok"
    THEN [content |-> h.files[<<b, p>>], sha |-> Sha(h.files[<<b, p>>]), error |-> ""]
    ELSE [content |-> <<>>, sha |-> NoSha,
          error |-> IF ans = "404" THEN "file not found"
                    ELSE IF ans = "dir" THEN "is a directory, not a file"
                    ELSE "api error"]

\* re.search of a pattern of the model: the first position it matches at, 0
\* when it matches nowhere.
TailAt(c, i) == i + 2 <= Len(c) /\ c[i + 1] = " " /\ c[i + 2] # " "
RegexMatches(pat, c, i) ==
    /\ c[i] = pat.lit
    /\ (pat.groups = 1 /\ ~pat.optional) => TailAt(c, i)
\* Whether the capture group took part in the match at i.
GroupTookPart(pat, c, i) == pat.groups = 1 /\ TailAt(c, i)
RegexSearch(pat, c) ==
    LET hits == {i \in 1..Len(c) : RegexMatches(pat, c, i)}
    IN  IF hits = {} THEN 0 ELSE CHOOSE i \in hits : \A j \in hits : i <= j
\* match.group(g), for a group that took part in the match.
RegexGroup(pat, c, i, g) ==
    IF g = 0 THEN SubSeq(c, i, IF GroupTookPart(pat, c, i) THEN i + 2 ELSE i)
    ELSE <<c[i + 2]>>

\* github_utils.PlaceholderExtractionResult: error = "" is no error, none
\* tells value=None from the empty string.
ExtractOk(v) == [value |-> v, none |-> FALSE, error |-> ""]
ExtractErr(e) == [value |-> <<>>, none |-> TRUE, error |-> e]
\* PlaceholderExtractionResult(value=None, error=None)
ExtractNone == [value |-> <<>>, none |-> TRUE, error |-> ""]

\* A faulty variant of the bounds check below: the index of the last group
\* counts as out of bounds.
GroupIndexOutOfBounds_strict(gi, n) == gi < 0 \/ gi >= n
\* group_index < 0 or group_index > len(match.groups())
GroupIndexOutOfBounds(gi, n) == gi < 0 \/ gi > n

\* What json.loads and yaml.safe_load build: strings, null, lists and
\* mappings.
YStr(w) == [t |-> "str", s |-> w]
YNull == [t |-> "null"]
YList(items) == [t |-> "list", items |-> items]
YDict(kv) == [t |-> "dict", kv |-> kv]

\* The structured files of the model, as tokens, and what the parsers make
\* of them.
MapDoc ==
    YDict([version |-> YStr(Str("1.2")), Name |-> YStr(Str("app")),
           empty |-> YNull,
           meta |-> YDict([tag |-> YNull, list |-> YList(<<YStr(Str("x"))>>)])])
ListDoc == YList(<<YStr(Str("x")), YNull>>)
YamlMapText == <<"version:", "1.2", "Name:", "app", "empty:", "meta:", "tag:",
                 "list:", "-", "x">>
YamlListText == <<"-", "x", "-", "null">>
BrokenText == <<"{", "version:">>
ScalarText == Str("plain")
Parsed(d) == [ok |-> TRUE, data |-> d]
ParseError == [ok |-> FALSE, data |-> YNull]
json_loads(c) == IF c = JsonMapText THEN Parsed(MapDoc) ELSE ParseError
yaml_safe_load(c) ==
    CASE c \in {YamlMapText, JsonMapText} -> Parsed(MapDoc)
      [] c = YamlListText -> Parsed(ListDoc)
      [] c = BrokenText -> ParseError
      [] c = <<>> -> Parsed(YNull)
      [] OTHER -> Parsed(YStr(c))

\* path.split('.'): the keys of a path, each the atoms between two dots.
RECURSIVE SplitDots(_, _)
SplitDots(path, cur) ==
    IF path = <<>> THEN <<cur>>
    ELSE IF Head(path) = "." THEN <<cur>> \o SplitDots(Tail(path), <<>>)
    ELSE SplitDots(Tail(path), Append(cur, Head(path)))
\* A key of the model is one atom; the empty key is "".
KeyAtom(k) == IF Len(k) = 1 THEN k[1] ELSE ""
\* str.lower() and int() on the keys of the model.
Lower(a) == CASE a = "VERSION" -> "version" [] a = "Name" -> "name" [] OTHER -> a
IsInt(a) == a \in {"0", "1", "5", "-1"}
IntOf(a) == CASE a = "0" -> 0 [] a = "1" -> 1 [] a = "5" -> 5 [] OTHER -> 0 - 1

PathValue(v) == [value |-> v, error |-> ""]
PathError(e) == [value |-> YNull, error |-> e]
\* The loop of _get_value_from_path from the i-th key on.
RECURSIVE Navigate(_, _, _)
Navigate(value, keys, i) ==
    IF i > Len(keys) THEN PathValue(value)
    ELSE LET key == KeyAtom(keys[i])
         IN  IF value.t = "dict"
             THEN IF key \in DOMAIN value.kv
                  THEN Navigate(value.kv[key], keys, i + 1)
                  ELSE LET same == {k \in DOMAIN value.kv : Lower(k) = Lower(key)}
                       IN  IF same = {} THEN PathError("key not found")
                           ELSE Navigate(value.kv[CHOOSE k \in same : TRUE],
                                         keys, i + 1)
             ELSE IF value.t = "list"
             THEN IF ~IsInt(key) THEN PathError("invalid index")
                  ELSE IF 0 <= IntOf(key) /\ IntOf(key) < Len(value.items)
                  THEN Navigate(value.items[IntOf(key) + 1], keys, i + 1)
                  ELSE PathError("index out of bounds")
             ELSE PathError("cannot navigate further")
_get_value_from_path(data, path) == Navigate(data, SplitDots(path, <<>>), 1)

\* list_of_yaml_paths: a single string is stripped and taken alone; of a
\* list the blank entries are left out.
IsBlank(t) == Strip(t) = <<>>
YamlPathList(c) ==
    IF "list" \in DOMAIN c
    THEN SelectSeq(c.list, LAMBDA q : ~IsBlank(q))
    ELSE IF IsBlank(c.str) THEN <<>> ELSE <<Strip(c.str)>>

\* A faulty variant of the loop below: it goes through every candidate and
\* the last value that is not null wins.
RECURSIVE YamlLoop_last(_, _, _, _)
YamlLoop_last(data, paths, i, acc) ==
    IF i > Len(paths) THEN [acc EXCEPT !.tried = Len(paths)]
    ELSE LET r == _get_value_from_path(data, paths[i])
         IN  YamlLoop_last(data, paths, i + 1,
                [value |-> IF r.error = "" /\ r.value # YNull THEN r.value
                           ELSE acc.value,
                 errs |-> IF r.error # "" THEN Append(acc.errs, r.error)
                          ELSE acc.errs,
                 tried |-> i])
\* for path_expression in list_of_yaml_paths: the value found (null when
\* none), the errors of the candidates, and how many were evaluated.
RECURSIVE YamlLoop(_, _, _, _)
YamlLoop(data, paths, i, acc) ==
    IF i > Len(paths) THEN [acc EXCEPT !.tried = Len(paths)]
    ELSE LET r == _get_value_from_path(data, paths[i])
         IN  IF r.error = "" /\ r.value # YNull
             THEN [value |-> r.value, errs |-> acc.errs, tried |-> i]
             ELSE YamlLoop(data, paths, i + 1,
                     [acc EXCEPT !.errs = IF r.error # "" THEN Append(@, r.error)
                                          ELSE @])
YamlStart == [value |-> YNull, errs |-> <<>>, tried |-> 0]

\* str(extracted_value)
PyStr(v) ==
    CASE v.t = "str" -> v.s
      [] v.t = "list" -> Str("[...]")
      [] v.t = "dict" -> Str("{...}")
      [] OTHER -> Str("None")

\* The "JSON Path" branch of extract_placeholder_value.
ExtractJson(content, config) ==
    IF config.jsonpath_expression = <<>>
    THEN [value |-> YNull, error |-> "jsonpath expression not provided"]
    ELSE LET d == json_loads(content)
         IN  IF ~d.ok THEN [value |-> YNull, error |-> "failed to parse json"]
             ELSE _get_value_from_path(d.data, config.jsonpath_expression)
\* The "YAML Path" branch of extract_placeholder_value.
ExtractYaml(content, config) ==
    LET paths == YamlPathList(config.yaml_path)
        d == yaml_safe_load(content)
    IN  IF paths = <<>> THEN [value |-> YNull, error |-> "yaml path list empty"]
        ELSE IF ~d.ok THEN [value |-> YNull, error |-> "failed to parse yaml"]
        ELSE IF d.data.t \notin {"dict", "list"}
        THEN [value |-> YNull, error |-> "yaml content is not a mapping or sequence"]
        ELSE LET r == YamlLoop(d.data, paths, 1, YamlStart)
             IN  IF r.value = YNull /\ r.errs # <<>> /\ Len(r.errs) = Len(paths)
                 THEN [value |-> YNull, error |-> "all yaml paths failed"]
                 ELSE IF r.value = YNull
                 THEN [value |-> YNull, error |-> "no yaml path yielded a non-null value"]
                 ELSE [value |-> r.value, error |-> ""]
\* A faulty variant of the return below: a null value is an error.
ExtractReturn_nullError(r) ==
    IF r.error # "" THEN ExtractErr(r.error)
    ELSE IF r.value = YNull THEN ExtractErr("value is null")
    ELSE ExtractOk(PyStr(r.value))
\* The end of extract_placeholder_value, for the structured methods.
ExtractReturn(r) ==
    IF r.error # "" THEN ExtractErr(r.error)
    ELSE IF r.value = YNull THEN ExtractNone
    ELSE ExtractOk(PyStr(r.value))

\* A faulty variant of the extractor: an unreadable source or a pattern that
\* does not match yields the empty value instead of an error.
extract_swallows_error(fc, method, config) == ExtractOk(<<>>)

extract_placeholder_value(fc, method, config) ==
    IF fc.error # "" THEN ExtractErr(fc.error)
    ELSE IF method = "Regex"
    THEN IF config.pattern.lit = "" THEN ExtractErr("regex pattern not provided")
         ELSE LET i == RegexSearch(config.pattern, fc.content)
              IN  IF i = 0 THEN ExtractErr("regex did not match")
                  ELSE IF GroupIndexOutOfBounds(config.group_index,
                                                config.pattern.groups)
                  THEN ExtractErr("group_index out of bounds")
                  ELSE IF config.group_index > 0
                          /\ ~GroupTookPart(config.pattern, fc.content, i)
                  THEN ExtractNone
                  ELSE ExtractOk(RegexGroup(config.pattern, fc.content, i,
                                            config.group_index))
    ELSE IF method = "JSON Path" THEN ExtractReturn(ExtractJson(fc.content, config))
    ELSE IF method = "YAML Path" THEN ExtractReturn(ExtractYaml(fc.content, config))
    ELSE ExtractErr("unsupported extraction method")

\* One line of action_log_for_repo.
Line(tag, txt) == [tag |-> tag, txt |-> txt]

BuiltinNames == {Str("repo_name"), Str("repo_full_name"),
                 Str("repo_default_branch"), Str("timestamp")}
\* The map _resolve_all_placeholders_for_repo starts from.
BuiltinPlaceholders(repo) ==
    (Str("repo_name") :> repo.name) @@ (Str("repo_full_name") :> repo.full_name)
    @@ (Str("repo_default_branch") :> repo.default_branch)
    @@ (Str("timestamp") :> TimestampStr)

\* The keys of the form dictionaries, in insertion order.
KeyOrder == <<"file_path", "file_content", "branch_name", "commit_message",
              "pr_title", "pr_body">>

\* _process_action_params: the processed parameters, the map with file_path
\* bound, and the log.
ProcessPhase1(p, m) == [k \in DOMAIN p |-> process_placeholders_in_string(p[k], m)]
FilePathForMessages(p1) ==
    IF "file_path" \in DOMAIN p1 THEN p1["file_path"]
    ELSE IF "target_file_path" \in DOMAIN p1 THEN p1["target_file_path"]
    ELSE <<>>
\* A faulty variant of the binding below: file_path is never bound.
BindFilePath_not(m, fp) == m
BindFilePath(m, fp) == (Str("file_path") :> fp) @@ m
ProcessPhase2(p1, m2, keys2) ==
    [k \in DOMAIN p1 |-> IF k \in keys2
                         THEN process_placeholders_in_string(p1[k], m2)
                         ELSE p1[k]]
RECURSIVE ParamsLog(_, _, _, _, _)
ParamsLog(tag, before, after, keys, i) ==
    IF i > Len(KeyOrder) THEN <<>>
    ELSE LET k == KeyOrder[i]
         IN  (IF k \in keys /\ k \in DOMAIN before /\ before[k] # after[k]
              THEN <<Line(tag, after[k])>> ELSE <<>>)
             \o ParamsLog(tag, before, after, keys, i + 1)
_process_action_params(p, m, keys2) ==
    LET p1 == ProcessPhase1(p, m)
        fp == FilePathForMessages(p1)
        m2 == BindFilePath(m, fp)
        p2 == ProcessPhase2(p1, m2, keys2)
        changed == Str("file_path") \notin DOMAIN m \/ m[Str("file_path")] # fp
    IN  [params |-> p2, resolved |-> m2,
         log |-> ParamsLog("param_phase1", p, p1, DOMAIN p, 1)
                 \o (IF changed THEN <<Line("file_path_set", fp)>> ELSE <<>>)
                 \o ParamsLog("param_phase2", p1, p2, keys2, 1)]

\* str.replace(old, new) and str.replace(old, new, 1) on atoms; count = -1
\* replaces every occurrence.  An empty old matches before every atom and at
\* the end.
RECURSIVE ReplaceFrom(_, _, _, _, _)
ReplaceFrom(c, old, new, i, count) ==
    IF i > Len(c)
    THEN (IF old = <<>> /\ count # 0 THEN new ELSE <<>>)
    ELSE IF count # 0 /\ OccursAt(c, old, i)
         THEN LET left == IF count > 0 THEN count - 1 ELSE count
              IN  IF old = <<>>
                  THEN new \o <<c[i]>> \o ReplaceFrom(c, old, new, i + 1, left)
                  ELSE new \o ReplaceFrom(c, old, new, i + Len(old), left)
         ELSE <<c[i]>> \o ReplaceFrom(c, old, new, i + 1, count)
StrReplace(c, old, new, all) == ReplaceFrom(c, old, new, 1, IF all THEN -1 ELSE 1)

\* A search string holding "(" is not a regular expression (re.error); any
\* other search string of the model matches as the literal it is.
InvalidRegex(search) == \E i \in 1..Len(search) : search[i] = "("

\* ----------------------------------------------------- action configurations
ReplaceMode == "Replace entire content"
SearchMode == "Search and replace string"

\* The form dictionary of an action (action_config_from_form).
BaseCfg ==
    [file_path |-> OldPath, branch_name |-> CleanupBranch,
     commit_message |-> <<"Change", " ">> \o Tok("file_path"),
     pr_title |-> <<"PR", " ">> \o Tok("file_path"),
     pr_body |-> <<"in", " ">> \o Tok("repo_name"),
     file_content |-> ContentB, update_mode |-> ReplaceMode,
     search_string |-> Str("foo"), replace_with_string |-> Str("qux"),
     is_regex |-> FALSE, replace_all |-> TRUE, force_update |-> FALSE,
     target_path |-> <<>>, filename_filter |-> <<>>, content_query |-> <<>>]

Scenario(k, c, d) == [kind |-> k, cfg |-> c, defs |-> d]

RemoveScenarios ==
    { Scenario("remove", BaseCfg, <<>>),
      Scenario("remove", [BaseCfg EXCEPT !.file_path = Tok("p")], <<DefPath>>),
      Scenario("remove", [BaseCfg EXCEPT !.file_path = Tok("p")],
               <<DefEmptyName, DefPath>>),
      Scenario("remove", [BaseCfg EXCEPT !.file_path = Tok("p")], <<DefNoMatch>>),
      Scenario("remove", BaseCfg, <<DefRepoName>>),
      Scenario("remove", [BaseCfg EXCEPT !.pr_body = <<"tag", " ">> \o Tok("j")],
               <<DefJsonNull>>),
      Scenario("remove", BaseCfg,
               <<DefFirst, DefEmptyName, DefPath, DefNoMatch, DefLast>>),
      Scenario("remove", [BaseCfg EXCEPT !.file_path = <<>>], <<>>),
      Scenario("remove", [BaseCfg EXCEPT !.file_path = DocsDir], <<>>),
      Scenario("remove", [BaseCfg EXCEPT !.file_path = Tok("e")], <<DefEmpty>>),
      Scenario("remove", [BaseCfg EXCEPT !.branch_name = Str(" ")], <<>>),
      Scenario("remove", [BaseCfg EXCEPT !.branch_name = Tok("repo_default_branch")],
               <<>>) }

AddScenarios ==
    { Scenario("add", BaseCfg, <<>>),
      Scenario("add", [BaseCfg EXCEPT !.file_path = Tok("p")], <<DefPath>>),
      Scenario("add", [BaseCfg EXCEPT !.file_path = <<>>], <<>>),
      Scenario("add", [BaseCfg EXCEPT !.file_path = <<"docs", "/">> \o Tok("file_path")],
               <<>>),
      Scenario("add", [BaseCfg EXCEPT !.file_path = Tok("e")], <<DefEmpty>>) }

SearchCfg == [BaseCfg EXCEPT !.update_mode = SearchMode]
ManyCfg == [SearchCfg EXCEPT !.file_path = <<>>, !.filename_filter = Str("*.md"),
                             !.search_string = Str("bar"),
                             !.pr_body = <<"files", " ">> \o Tok("file_path")]

UpdateScenarios ==
    { Scenario("update", BaseCfg, <<>>),
      Scenario("update", [BaseCfg EXCEPT !.force_update = TRUE], <<>>),
      Scenario("update", SearchCfg, <<>>),
      Scenario("update", [SearchCfg EXCEPT !.force_update = TRUE], <<>>),
      Scenario("update", [SearchCfg EXCEPT !.search_string = Str("zzz")], <<>>),
      Scenario("update", [SearchCfg EXCEPT !.file_path = Tok("p")], <<DefPath>>),
      Scenario("update", [BaseCfg EXCEPT !.file_path = Tok("e")], <<DefEmpty>>),
      Scenario("update", [BaseCfg EXCEPT !.branch_name = <<"fix-">> \o Tok("file_path"),
                                         !.pr_body = <<"updates", " ">> \o Tok("file_path")],
               <<>>),
      Scenario("update", [BaseCfg EXCEPT !.branch_name = NoneValue], <<>>),
      Scenario("update", ManyCfg, <<>>),
      Scenario("update", [ManyCfg EXCEPT !.filename_filter = <<>>], <<>>),
      Scenario("update", [ManyCfg EXCEPT !.filename_filter = <<>>,
                                         !.target_path = <<"docs", "/">>], <<>>) }

Scenarios == RemoveScenarios \cup AddScenarios \cup UpdateScenarios

vars == <<kind, cfg, defs, repos, ri, pc, results, loc, calls, cb, uf, prf,
          host, envLeft, faultsLeft>>
inputs == <<kind, cfg, defs, repos>>

repo_info == repos[ri]

\* A host call of the trace: the operation, its branch, path, hash and
\* commit message (<<>> where it has none) and the host's answer.
Call(op, br, path, sha, msg, ans) ==
    [op |-> op, br |-> br, path |-> path, sha |-> sha, msg |-> msg, ans |-> ans]

EmptyHost == [heads |-> <<>>, files |-> <<>>, ahead |-> {}, prs |-> {},
              nextUrl |-> 1]
EmptyParams == [k \in {KeyOrder[i] : i \in 1..Len(KeyOrder)} |-> <<>>]
EmptyLoc ==
    [log |-> <<>>, resolved |-> <<>>, phIdx |-> 1, params |-> EmptyParams,
     path |-> <<>>, branch |-> <<>>, created |-> FALSE, sha |-> NoSha,
     targets |-> <<>>, shas |-> <<>>, fi |-> 1, any |-> FALSE, allOk |-> TRUE,
     lastPath |-> <<>>, before |-> EmptyHost,
     find |-> [path |-> <<>>, filter |-> <<>>, query |-> <<>>],
     budget |-> <<0, 0>>]
EmptyCb == [new |-> <<>>, src |-> <<>>, srcSha |-> 0]
EmptyUf ==
    [path |-> <<>>, content |-> <<>>, msg |-> <<>>, branch |-> <<>>,
     appSha |-> NoSha, mode |-> "", search |-> <<>>, replace |-> <<>>,
     is_regex |-> FALSE, replace_all |-> TRUE, fallback |-> <<>>,
     force |-> FALSE, sha |-> NoSha, exists |-> FALSE, toWrite |-> <<>>,
     delSha |-> NoSha, writes |-> 0, deletes |-> 0, conflict |-> FALSE,
     stale |-> FALSE, done |-> FALSE, success |-> FALSE, new_sha |-> NoSha]
EmptyPr == [head |-> <<>>, base |-> <<>>, title |-> <<>>, body |-> <<>>,
            url |-> 0, msg |-> ""]

Init ==
    /\ \E sc \in Scenarios :
          /\ kind = sc.kind
          /\ cfg = sc.cfg
          /\ defs = sc.defs
    /\ repos \in RepoLists
    /\ ri = 0
    /\ pc = "next"
    /\ results = <<>>
    /\ loc = EmptyLoc
    /\ calls = <<>>
    /\ cb = EmptyCb
    /\ uf = EmptyUf
    /\ prf = EmptyPr
    /\ host = EmptyHost
    /\ envLeft = MaxEnv
    /\ faultsLeft = MaxFaults

\* ------------------------------------------------------- executor skeleton
base_branch == repo_info.default_branch

\* A faulty variant of the append below: a failed repository leaves no result.
Finish_drop(lg, success, url) ==
    /\ results' = IF success
                  THEN Append(results, [repo |-> repo_info.name, success |-> success,
                                        message |-> lg, pr_url |-> url])
                  ELSE results
    /\ pc' = "next"

\* batch_action_results.append({...}); continue
Finish(lg, success, url) ==
    /\ results' = Append(results, [repo |-> repo_info.name, success |-> success,
                                   message |-> lg, pr_url |-> url])
    /\ pc' = "next"

\* Where an executor goes once its working branch is there.
FileStage ==
    CASE kind = "remove" -> "rf_sha"
      [] kind = "add"    -> "uf_read"
      [] OTHER           -> "u_file"

\* A faulty variant of the map below: the map of the repository before is
\* kept and only completed.
FreshPlaceholders_carried(repo) == loc.resolved @@ BuiltinPlaceholders(repo)
\* resolved_placeholders = {...}: a new dictionary for every repository.
FreshPlaceholders(repo) == BuiltinPlaceholders(repo)

\* for repo_info in selected_repo_infos: the next repository, as the host
\* holds it.
StartRepo ==
    /\ pc = "next"
    /\ ri < Len(repos)
    /\ ri' = ri + 1
    /\ \E ver \in (IF defs = <<>> THEN {TRUE} ELSE BOOLEAN),
          t1 \in BOOLEAN, pre \in PreStates,
          t2 \in (IF cfg.filename_filter # <<>> THEN BOOLEAN ELSE {FALSE}) :
          host' = MkHost(repos[ri + 1].default_branch, ver, t1, t2, pre)
    /\ loc' = [EmptyLoc EXCEPT
                 !.log = <<Line("action", repos[ri + 1].full_name)>>,
                 !.resolved = FreshPlaceholders(repos[ri + 1]),
                 !.before = host',
                 !.budget = <<envLeft, faultsLeft>>]
    /\ calls' = <<>>
    /\ cb' = EmptyCb
    /\ uf' = EmptyUf
    /\ prf' = EmptyPr
    /\ pc' = IF kind = "update" THEN "u_get_repo" ELSE "resolve"
    /\ UNCHANGED <<inputs, results, envLeft, faultsLeft>>

\* return batch_action_results
EndBatch ==
    /\ pc = "next"
    /\ ri = Len(repos)
    /\ pc' = "done"
    /\ UNCHANGED <<inputs, ri, results, loc, calls, cb, uf, prf, host, envLeft, faultsLeft>>

\* A faulty variant of the test below: every definition is extracted.
InvalidDefinition_never(d) == FALSE
\* if not ph_name or not ph_file_path or not ph_method
InvalidDefinition(d) == d.name = <<>> \/ d.file_path = <<>> \/ d.method = ""

\* One iteration of the loop of _resolve_all_placeholders_for_repo, and the
\* executor's "if not ph_ok" when the iteration breaks.
ResolvePlaceholder ==
    /\ pc = "resolve"
    /\ loc.phIdx <= Len(defs)
    /\ LET d == defs[loc.phIdx]
       IN  IF InvalidDefinition(d)
           THEN /\ loc' = [loc EXCEPT !.log = Append(@, Line("ph_skipped", d.name)),
                                      !.phIdx = @ + 1]
                /\ UNCHANGED <<pc, results, calls, faultsLeft>>
           ELSE \E ans \in GetContentsAnswers(host, base_branch, d.file_path) :
                  LET fc == get_file_content(ans, host, base_branch, d.file_path)
                      r  == extract_placeholder_value(fc, d.method, d.config)
                      v  == IF r.none THEN <<>> ELSE r.value
                      lg == Append(loc.log, Line("ph_error", Str(r.error)))
                  IN  /\ Charge(ans, GetContents(host, base_branch, d.file_path))
                      /\ calls' = Append(calls, Call("get_contents", base_branch,
                                                     d.file_path, NoSha, <<>>, ans))
                      /\ IF r.error # ""
                         THEN /\ loc' = [loc EXCEPT !.log = lg]
                              /\ Finish(lg, FALSE, 0)
                         ELSE /\ loc' = [loc EXCEPT
                                           !.resolved = (d.name :> v) @@ @,
                                           !.log = Append(@, Line("ph_resolved", v)),
                                           !.phIdx = @ + 1]
                              /\ UNCHANGED <<pc, results>>
    /\ UNCHANGED <<inputs, ri, cb, uf, prf, host, envLeft>>

MessageKeys == {"branch_name", "commit_message", "pr_title", "pr_body"}

\* A faulty variant of the check below: no path counts as missing.
PathMissing_never(path) == FALSE
\* if not target_file_path / if not resolved_specific_file_path
PathMissing(path) == path = <<>>

\* target_branch_for_action: the processed branch name, or the fallback
\* name when it is empty or blank.
TargetBranch(bn, prefix) ==
    IF bn = <<>> \/ Strip(bn) = <<>> THEN <<prefix>> \o TimestampStr ELSE bn

\* execute_remove_file_action, from the parameters to the empty-path check.
RemoveParams ==
    /\ pc = "resolve"
    /\ kind = "remove"
    /\ loc.phIdx > Len(defs)
    /\ LET raw == [file_path |-> cfg.file_path, branch_name |-> cfg.branch_name,
                   commit_message |-> cfg.commit_message,
                   pr_title |-> cfg.pr_title, pr_body |-> cfg.pr_body]
           r == _process_action_params(raw, loc.resolved, MessageKeys)
           br == TargetBranch(r.params.branch_name, "remove-file-fallback-")
           lg == loc.log \o r.log
           bad == Append(lg, Line("path_empty", <<>>))
       IN  IF PathMissing(r.params.file_path)
           THEN /\ loc' = [loc EXCEPT !.log = bad, !.resolved = r.resolved,
                                      !.params = r.params]
                /\ Finish(bad, FALSE, 0)
           ELSE /\ loc' = [loc EXCEPT !.log = lg, !.resolved = r.resolved,
                                      !.params = r.params,
                                      !.path = r.params.file_path, !.branch = br]
                /\ pc' = "br_check"
                /\ UNCHANGED results
    /\ UNCHANGED <<inputs, ri, calls, cb, uf, prf, host, envLeft, faultsLeft>>

\* execute_add_new_file_action, from the parameters to the empty-path check.
AddParams ==
    /\ pc = "resolve"
    /\ kind = "add"
    /\ loc.phIdx > Len(defs)
    /\ LET raw == [file_path |-> cfg.file_path, file_content |-> cfg.file_content,
                   branch_name |-> cfg.branch_name,
                   commit_message |-> cfg.commit_message,
                   pr_title |-> cfg.pr_title, pr_body |-> cfg.pr_body]
           r == _process_action_params(raw, loc.resolved,
                                       MessageKeys \cup {"file_path", "file_content"})
           br == TargetBranch(r.params.branch_name, "add-file-fallback-")
           lg == loc.log \o r.log
           bad == Append(lg, Line("path_empty", <<>>))
       IN  IF PathMissing(r.params.file_path)
           THEN /\ loc' = [loc EXCEPT !.log = bad, !.resolved = r.resolved,
                                      !.params = r.params, !.branch = br]
                /\ Finish(bad, FALSE, 0)
                /\ UNCHANGED uf
           ELSE /\ loc' = [loc EXCEPT !.log = lg, !.resolved = r.resolved,
                                      !.params = r.params,
                                      !.path = r.params.file_path, !.branch = br]
                /\ uf' = [EmptyUf EXCEPT !.path = r.params.file_path,
                                         !.content = r.params.file_content,
                                         !.msg = r.params.commit_message,
                                         !.branch = br, !.mode = ReplaceMode]
                /\ pc' = "br_check"
                /\ UNCHANGED results
    /\ UNCHANGED <<inputs, ri, calls, cb, prf, host, envLeft, faultsLeft>>

\* The executors' branch check: repo_api.get_git_ref(heads/<branch>).
BranchCheck ==
    /\ pc = "br_check"
    /\ \E ans \in GetRef(host, loc.branch) \cup Injected({"err"}) :
         /\ Charge(ans, GetRef(host, loc.branch))
         /\ calls' = Append(calls, Call("get_git_ref", loc.branch, <<>>, NoSha,
                                        <<>>, ans))
         /\ CASE ans = "ok" ->
                   /\ loc' = [loc EXCEPT !.log = Append(@, Line("using_existing",
                                                               loc.branch))]
                   /\ pc' = FileStage
                   /\ UNCHANGED <<results, cb>>
              [] ans = "404" ->
                   /\ loc' = [loc EXCEPT !.log = Append(@, Line("branch_missing",
                                                               loc.branch))]
                   /\ cb' = [new |-> loc.branch, src |-> base_branch, srcSha |-> 0]
                   /\ pc' = "cb_check"
                   /\ UNCHANGED results
              [] OTHER ->
                   LET lg == Append(loc.log, Line("branch_check_error", loc.branch))
                   IN  /\ loc' = [loc EXCEPT !.log = lg]
                       /\ Finish(lg, FALSE, 0)
                       /\ UNCHANGED cb
    /\ UNCHANGED <<inputs, ri, uf, prf, host, envLeft>>

\* ------------------------------------------------------------ create_branch
\* One record of the direct calls of create_branch and create_pull_request
\* (kind = "ensure"): the function, what it returned, the host before and
\* after, the host calls it made, and how many failures of the host and steps
\* of other clients fell into it.
Outcome(fn, ok, url, msg, before) ==
    [fn |-> fn, ok |-> ok, url |-> url, msg |-> msg, before |-> before,
     after |-> host', calls |-> calls',
     faults |-> loc.budget[2] - faultsLeft', env |-> loc.budget[1] - envLeft]

\* A faulty variant of the return below: the executor goes on to its file
\* whatever create_branch returned.
BranchReturn_proceeds(success, msg) ==
    LET lg == Append(loc.log, Line("branch_op", Str(msg)))
    IN  IF kind = "ensure"
        THEN /\ results' = Append(results, Outcome("create_branch", success, 0,
                                                   msg, loc.before))
             /\ pc' = "idle"
             /\ UNCHANGED loc
        ELSE /\ loc' = [loc EXCEPT !.log = lg, !.created = TRUE]
             /\ pc' = FileStage
             /\ UNCHANGED results
\* return BranchOperationResult(success, message), back in the caller.
BranchReturn(success, msg) ==
    LET lg == Append(loc.log, Line("branch_op", Str(msg)))
    IN  IF kind = "ensure"
        THEN /\ results' = Append(results, Outcome("create_branch", success, 0,
                                                   msg, loc.before))
             /\ pc' = "idle"
             /\ UNCHANGED loc
        ELSE IF success
        THEN /\ loc' = [loc EXCEPT !.log = lg, !.created = TRUE]
             /\ pc' = FileStage
             /\ UNCHANGED results
        ELSE /\ loc' = [loc EXCEPT !.log = lg]
             /\ Finish(lg, FALSE, 0)

\* repo.get_branch(new_branch_name)
CbCheck ==
    /\ pc = "cb_check"
    /\ UNCHANGED <<inputs, ri, cb, uf, prf, host, envLeft>>
    /\ \E ans \in GetRef(host, cb.new) \cup Injected({"err"}) :
         /\ Charge(ans, GetRef(host, cb.new))
         /\ calls' = Append(calls, Call("get_branch", cb.new, <<>>, NoSha, <<>>, ans))
         /\ CASE ans = "ok"  -> BranchReturn(TRUE, "using existing branch")
              [] ans = "404" -> pc' = "cb_src" /\ UNCHANGED <<results, loc>>
              [] OTHER       -> BranchReturn(FALSE, "error checking for existing branch")

\* repo.get_branch(source_branch_name).commit.sha
CbSrc ==
    /\ pc = "cb_src"
    /\ UNCHANGED <<inputs, ri, uf, prf, host, envLeft>>
    /\ \E ans \in GetRef(host, cb.src) \cup Injected({"err"}) :
         /\ Charge(ans, GetRef(host, cb.src))
         /\ calls' = Append(calls, Call("get_branch", cb.src, <<>>, NoSha, <<>>, ans))
         /\ CASE ans = "ok" ->
                   /\ cb' = [cb EXCEPT !.srcSha = host.heads[cb.src]]
                   /\ pc' = "cb_create"
                   /\ UNCHANGED <<results, loc>>
              [] ans = "404" ->
                   BranchReturn(FALSE, "source branch not found") /\ UNCHANGED cb
              [] OTHER ->
                   BranchReturn(FALSE, "error getting source branch") /\ UNCHANGED cb

\* A faulty variant of the test below: no rejection is taken for a branch
\* that exists.
ReferenceAlreadyExists_never(ans) == FALSE
\* e_create_ref.status == 422 and "Reference already exists" in the message
ReferenceAlreadyExists(ans) == ans = "422"

\* repo.create_git_ref(refs/heads/<new>, source_branch_sha); the host may
\* also reject it with another status, 409 among them.
CbCreate ==
    /\ pc = "cb_create"
    /\ \E ans \in CreateRef(host, cb.new) \cup Injected({"err", "409"}) :
         /\ Charge(ans, CreateRef(host, cb.new))
         /\ calls' = Append(calls, Call("create_git_ref", cb.new, <<>>, NoSha,
                                        <<>>, ans))
         /\ CASE ans = "ok" ->
                   /\ host' = HostCreateRef(host, cb.new, cb.src, cb.srcSha)
                   /\ BranchReturn(TRUE, "branch created successfully")
              [] ans # "ok" /\ ReferenceAlreadyExists(ans) ->
                   /\ pc' = "cb_reread"
                   /\ UNCHANGED <<results, loc, host>>
              [] OTHER ->
                   /\ UNCHANGED host
                   /\ BranchReturn(FALSE, "GitHub API error during branch operation")
    /\ UNCHANGED <<inputs, ri, cb, uf, prf, envLeft>>

\* repo.get_branch(new_branch_name) after "Reference already exists"
CbReread ==
    /\ pc = "cb_reread"
    /\ UNCHANGED <<inputs, ri, cb, uf, prf, host, envLeft>>
    /\ \E ans \in GetRef(host, cb.new) \cup Injected({"err"}) :
         /\ Charge(ans, GetRef(host, cb.new))
         /\ calls' = Append(calls, Call("get_branch", cb.new, <<>>, NoSha, <<>>, ans))
         /\ IF ans = "ok"
            THEN BranchReturn(TRUE, "using existing branch (confirmed by create_git_ref failure)")
            ELSE BranchReturn(FALSE, "branch seems to exist but could not be fetched")

\* ------------------------------------------------------ create_pull_request
PrFrame == [EmptyPr EXCEPT !.head = loc.branch, !.base = base_branch,
                           !.title = loc.params.pr_title,
                           !.body = loc.params.pr_body]

\* return PullRequestResult(html_url, message), and the caller's finalize.
\* url = 0 is html_url=None, msg = "" is message=None.
PrReturn(url, msg) ==
    LET lg == Append(loc.log, Line("pr_creation", Str(msg)))
        status == Append(lg, IF msg # "" THEN Line("pr_status", Str(msg))
                                         ELSE Line("pr_unclear", <<>>))
        failed == Append(lg, Line("pr_not_created", Str(msg)))
    IN  /\ prf' = [prf EXCEPT !.url = url, !.msg = msg]
        /\ CASE kind = "ensure" ->
                  /\ results' = Append(results, Outcome("create_pull_request",
                                                        url # 0, url, msg, loc.before))
                  /\ pc' = "idle"
                  /\ UNCHANGED loc
             [] kind = "remove" ->
                  LET fin == IF url # 0 THEN lg ELSE status
                  IN  loc' = [loc EXCEPT !.log = fin] /\ Finish(fin, TRUE, url)
             [] kind = "add" ->
                  LET fin == IF url = 0 /\ msg # "" THEN failed ELSE lg
                  IN  loc' = [loc EXCEPT !.log = fin] /\ Finish(fin, url # 0, url)
             [] OTHER ->
                  LET fin == IF ~loc.allOk
                             THEN Append(lg, Line("file_ops_failed", <<>>))
                             ELSE IF url = 0 /\ msg # "" THEN failed ELSE lg
                  IN  /\ loc' = [loc EXCEPT !.log = fin]
                      /\ Finish(fin, loc.allOk /\ url # 0, url)

\* A faulty variant of the listing below: the executor sees no open pull
\* request.
get_pulls_none(h, head, base) == {}

\* existing_pulls: the open pull requests the host lists for head and base.
get_pulls(h, head, base) == OpenPrs(h, head, base)

\* repo.get_pulls(state='open', head, base)
PrQuery ==
    /\ pc = "pr_query"
    /\ UNCHANGED <<inputs, ri, cb, uf, host, envLeft>>
    /\ \E ans \in {"ok"} \cup Injected({"err"}) :
         /\ Charge(ans, {"ok"})
         /\ calls' = Append(calls, Call("get_pulls", prf.head, <<>>, NoSha, <<>>, ans))
         /\ IF ans = "err"
            THEN PrReturn(0, "GitHub API error creating pull request")
            ELSE IF get_pulls(host, prf.head, prf.base) # {}
            THEN \E q \in get_pulls(host, prf.head, prf.base) :
                    PrReturn(q.url, "Pull Request already exists")
            ELSE /\ pc' = "pr_create"
                 /\ UNCHANGED <<results, loc, prf>>

\* repo.create_pull(title, body, head, base)
PrCreate ==
    /\ pc = "pr_create"
    /\ \E ans \in CreatePullAnswers(host, prf.head, prf.base) :
         /\ Charge(ans, CreatePull(host, prf.head, prf.base))
         /\ calls' = Append(calls, Call("create_pull", prf.head, <<>>, NoSha,
                                        prf.title, ans))
         /\ CASE ans = "ok" ->
                   /\ host' = HostCreatePull(host, prf.head, prf.base)
                   /\ PrReturn(host.nextUrl, "")
              [] ans = "nocommits" ->
                   /\ UNCHANGED host
                   /\ PrReturn(0, "No new commits to create a Pull Request")
              [] ans = "exists" ->
                   /\ pc' = "pr_requery"
                   /\ UNCHANGED <<results, loc, prf, host>>
              [] OTHER ->
                   /\ UNCHANGED host
                   /\ PrReturn(0, "GitHub API error creating pull request")
    /\ UNCHANGED <<inputs, ri, cb, uf, envLeft>>

\* repo.get_pulls again after "A pull request already exists"
PrRequery ==
    /\ pc = "pr_requery"
    /\ UNCHANGED <<inputs, ri, cb, uf, host, envLeft>>
    /\ \E ans \in {"ok"} \cup Injected({"err"}) :
         /\ Charge(ans, {"ok"})
         /\ calls' = Append(calls, Call("get_pulls", prf.head, <<>>, NoSha, <<>>, ans))
         /\ IF ans = "ok" /\ get_pulls(host, prf.head, prf.base) # {}
            THEN \E q \in get_pulls(host, prf.head, prf.base) :
                    PrReturn(q.url, "Pull Request already exists")
            ELSE PrReturn(0, "GitHub API error creating pull request")

\* ------------------------------------------- Remove: the file and its hash
\* A faulty variant of the test below: the deletion goes on whatever the read
\* returned.
ShaUnavailable_never(fc) == FALSE

\* if file_content_res.error or not file_content_res.sha
ShaUnavailable(fc) == fc.error # "" \/ fc.sha = NoSha

\* github_utils.get_file_content(target_file_path, branch_to_operate_on)
RfSha ==
    /\ pc = "rf_sha"
    /\ \E ans \in GetContentsAnswers(host, loc.branch, loc.path) :
         LET fc == get_file_content(ans, host, loc.branch, loc.path)
             bad == Append(loc.log, Line("sha_error", Str(fc.error)))
         IN  /\ Charge(ans, GetContents(host, loc.branch, loc.path))
             /\ calls' = Append(calls, Call("get_contents", loc.branch, loc.path,
                                            NoSha, <<>>, ans))
             /\ IF ShaUnavailable(fc)
                THEN /\ loc' = [loc EXCEPT !.log = bad]
                     /\ Finish(bad, FALSE, 0)
                ELSE /\ loc' = [loc EXCEPT !.sha = fc.sha,
                                           !.log = Append(@, Line("sha", fc.sha))]
                     /\ pc' = "rf_delete"
                     /\ UNCHANGED results
    /\ UNCHANGED <<inputs, ri, cb, uf, prf, host, envLeft>>

\* github_utils.delete_file(path, commit_message, branch, sha)
RfDelete ==
    /\ pc = "rf_delete"
    /\ \E ans \in WriteAnswers(host, loc.branch, loc.path, loc.sha) :
         LET lg == Append(loc.log, Line("delete_result", Str(ans)))
         IN  /\ Charge(ans, Write(host, loc.branch, loc.path, loc.sha))
             /\ calls' = Append(calls, Call("delete_file", loc.branch, loc.path,
                                            loc.sha, loc.params.commit_message, ans))
             /\ loc' = [loc EXCEPT !.log = lg]
             /\ IF ans = "ok"
                THEN /\ host' = HostDelete(host, loc.branch, base_branch, loc.path)
                     /\ prf' = PrFrame
                     /\ pc' = "pr_query"
                     /\ UNCHANGED results
                ELSE /\ Finish(lg, FALSE, 0)
                     /\ UNCHANGED <<host, prf>>
    /\ UNCHANGED <<inputs, ri, cb, uf, envLeft>>

\* -------------------------------------------------------------- update_file
\* A faulty variant of the flag below: the last file decides.
AllOkAfter_last(allOk, success) == success
\* all_file_ops_successful_in_repo after one more file: a failed file sets
\* it to False for the rest of the repository.
AllOkAfter(allOk, success) == allOk /\ success

\* A faulty variant of the flag below: it is never set.
AnyUpdatedAfter_never(any, success) == FALSE
\* any_file_updated_in_repo after a file: set by a file that was written.
AnyUpdatedAfter(any, success) == any \/ success

\* return FileUpdateResult(success, message, new_sha), back in the caller:
\* Add goes on to the pull request or gives up, Update goes on to the next
\* file.  f is the frame of update_file at the return.
FileReturn(f, success, msg, newSha) ==
    LET lg == Append(loc.log, Line(IF success THEN "file_ok" ELSE "file_error",
                                   Str(msg)))
    IN  /\ uf' = [f EXCEPT !.done = TRUE, !.success = success, !.new_sha = newSha]
        /\ IF kind = "add"
           THEN IF success
                THEN /\ loc' = [loc EXCEPT !.log = lg]
                     /\ prf' = PrFrame
                     /\ pc' = "pr_query"
                     /\ UNCHANGED results
                ELSE /\ loc' = [loc EXCEPT !.log = lg]
                     /\ Finish(lg, FALSE, 0)
                     /\ UNCHANGED prf
           ELSE /\ loc' = [loc EXCEPT !.log = lg,
                                      !.any = AnyUpdatedAfter(@, success),
                                      !.allOk = AllOkAfter(@, success),
                                      !.fi = @ + 1]
                /\ pc' = "u_file"
                /\ UNCHANGED <<results, prf>>

\* The search/replace of update_file on the content it fetched.
SearchReplace(f, content) ==
    StrReplace(content, f.search, f.replace, f.replace_all)

\* A faulty variant of the choice below: the default branch's copy is taken
\* whenever a default branch is given.
ContentSource_default(f) ==
    IF f.fallback # <<>> THEN "uf_sr_fallback"
    ELSE IF f.exists THEN "uf_sr_read" ELSE "none"

\* Where search/replace takes the content from: if file_exists_on_branch, the
\* target branch; if not content_fetched_for_sr and
\* default_branch_for_sr_fallback, the default branch; else nowhere.
ContentSource(f) ==
    IF f.exists THEN "uf_sr_read"
    ELSE IF f.fallback # <<>> THEN "uf_sr_fallback" ELSE "none"

\* repo.get_contents(file_path, ref=branch_name): hash and existence on the
\* target branch, then the choice of where the content to write comes from.
UfRead ==
    /\ pc = "uf_read"
    /\ UNCHANGED <<inputs, ri, cb, host, envLeft>>
    /\ \E ans \in GetContentsAnswers(host, uf.branch, uf.path) :
         LET fc == get_file_content(ans, host, uf.branch, uf.path)
             f  == [uf EXCEPT !.sha = fc.sha, !.exists = (ans = "ok")]
         IN  /\ Charge(ans, GetContents(host, uf.branch, uf.path))
             /\ calls' = Append(calls, Call("get_contents", uf.branch, uf.path,
                                            NoSha, <<>>, ans))
             /\ CASE ans = "err" ->
                       FileReturn(uf, FALSE, "error checking file on target branch", NoSha)
                  [] ans = "dir" ->
                       FileReturn(uf, FALSE, "on target branch is a directory", NoSha)
                  [] ans \in {"ok", "404"} /\ uf.mode = ReplaceMode ->
                       /\ uf' = [f EXCEPT !.toWrite = uf.content]
                       /\ pc' = "uf_write"
                       /\ UNCHANGED <<results, loc, prf>>
                  [] ans \in {"ok", "404"} /\ uf.mode = SearchMode
                       /\ ContentSource(f) # "none" ->
                       /\ uf' = f
                       /\ pc' = ContentSource(f)
                       /\ UNCHANGED <<results, loc, prf>>
                  [] OTHER ->
                       FileReturn(f, FALSE, "not found or content inaccessible for Search/Replace", NoSha)

\* The content fetched: re.sub / str.replace, or the regex error.
UfReplaced(f, content) ==
    IF f.is_regex /\ InvalidRegex(f.search)
    THEN FileReturn(f, FALSE, "Invalid regular expression", NoSha)
    ELSE /\ uf' = [f EXCEPT !.toWrite = SearchReplace(f, content)]
         /\ pc' = "uf_write"
         /\ UNCHANGED <<results, loc, prf>>

\* repo.get_contents(file_path, ref=branch_name) for the content to search
UfSrRead ==
    /\ pc = "uf_sr_read"
    /\ UNCHANGED <<inputs, ri, cb, host, envLeft>>
    /\ \E ans \in GetContentsAnswers(host, uf.branch, uf.path) :
         /\ Charge(ans, GetContents(host, uf.branch, uf.path))
         /\ calls' = Append(calls, Call("get_contents", uf.branch, uf.path,
                                        NoSha, <<>>, ans))
         /\ CASE ans = "ok"  -> UfReplaced(uf, host.files[<<uf.branch, uf.path>>])
              [] ans = "404" -> FileReturn(uf, FALSE, "disappeared from target branch", NoSha)
              [] OTHER       -> FileReturn(uf, FALSE, "Error reading file from target branch", NoSha)

\* repo.get_contents(file_path, ref=default_branch_for_sr_fallback)
UfSrFallback ==
    /\ pc = "uf_sr_fallback"
    /\ UNCHANGED <<inputs, ri, cb, host, envLeft>>
    /\ \E ans \in GetContentsAnswers(host, uf.fallback, uf.path) :
         /\ Charge(ans, GetContents(host, uf.fallback, uf.path))
         /\ calls' = Append(calls, Call("get_contents", uf.fallback, uf.path,
                                        NoSha, <<>>, ans))
         /\ IF ans = "ok"
            THEN UfReplaced(uf, host.files[<<uf.fallback, uf.path>>])
            ELSE FileReturn(uf, FALSE, "not found or content inaccessible for Search/Replace", NoSha)

\* The host after it accepted a write of content to p on b.  A write that
\* leaves the content as it was is a commit with an empty change: whether
\* the host then counts b as ahead of base is left open.
PutOutcomes(h, b, base, p, content) ==
    {HostPut(h, b, base, p, content)}
    \cup (IF HasFile(h, b, p) /\ h.files[<<b, p>>] = content
          THEN {[HostPut(h, b, base, p, content) EXCEPT !.ahead = h.ahead]}
          ELSE {})

\* A faulty variant of the condition below: every conflict is retried.
ForceRetry_any(ans, f) == ans = "409"

\* if e.status == 409 and force_update and update_mode == "Search and replace
\* string"
ForceRetry(ans, f) == ans = "409" /\ f.force /\ f.mode = SearchMode

\* A faulty variant of the hash below: the hash the caller passed is taken
\* when there is one.
PreconditionSha_app(f) == IF f.appSha # NoSha THEN f.appSha ELSE f.sha
\* The hash of the write: actual_existing_file_sha_on_branch, read from the
\* target branch by this call; current_sha_from_app is not used.
PreconditionSha(f) == f.sha

\* repo.update_file(sha=actual_existing_file_sha_on_branch) when the file was
\* found on the branch, repo.create_file otherwise; and the handler of the
\* GithubException.
UfWrite ==
    /\ pc = "uf_write"
    /\ UNCHANGED <<inputs, ri, cb, envLeft>>
    /\ LET sha == PreconditionSha(uf) IN
       \E ans \in WriteAnswers(host, uf.branch, uf.path, sha) :
         LET f == [uf EXCEPT !.writes = @ + 1]
             isStale == /\ sha # NoSha
                        /\ HasBranch(host, uf.branch)
                        /\ HasFile(host, uf.branch, uf.path)
                        /\ Sha(host.files[<<uf.branch, uf.path>>]) # sha
         IN  /\ Charge(ans, Write(host, uf.branch, uf.path, sha))
             /\ calls' = Append(calls, Call(IF sha # NoSha THEN "update_file"
                                                          ELSE "create_file",
                                            uf.branch, uf.path, sha, uf.msg, ans))
             /\ CASE ans = "ok" ->
                       /\ host' \in PutOutcomes(host, uf.branch, base_branch,
                                                uf.path, uf.toWrite)
                       /\ FileReturn(f, TRUE, IF sha # NoSha
                                              THEN "updated successfully"
                                              ELSE "created successfully",
                                     Sha(uf.toWrite))
                  [] ans # "ok" /\ ForceRetry(ans, uf) ->
                       /\ uf' = [f EXCEPT !.conflict = TRUE, !.stale = isStale,
                                          !.delSha = uf.sha]
                       /\ pc' = IF uf.sha = NoSha THEN "uf_force_refetch"
                                                  ELSE "uf_force_delete"
                       /\ UNCHANGED <<results, loc, prf, host>>
                  [] OTHER ->
                       /\ UNCHANGED host
                       /\ FileReturn([f EXCEPT !.conflict = (ans = "409"),
                                               !.stale = (ans = "409" /\ isStale)],
                                     FALSE, "GitHub API error", NoSha)

\* Force update, sha_for_delete_attempt was None: repo.get_contents again.
UfForceRefetch ==
    /\ pc = "uf_force_refetch"
    /\ UNCHANGED <<inputs, ri, cb, host, envLeft>>
    /\ \E ans \in GetContentsAnswers(host, uf.branch, uf.path) :
         /\ Charge(ans, GetContents(host, uf.branch, uf.path))
         /\ calls' = Append(calls, Call("get_contents", uf.branch, uf.path,
                                        NoSha, <<>>, ans))
         /\ IF ans = "ok"
            THEN /\ uf' = [uf EXCEPT !.delSha = Sha(host.files[<<uf.branch, uf.path>>])]
                 /\ pc' = "uf_force_delete"
                 /\ UNCHANGED <<results, loc, prf>>
            ELSE FileReturn(uf, FALSE, "Force update attempt failed", NoSha)

\* Force update: repo.delete_file(sha=sha_for_delete_attempt)
UfForceDelete ==
    /\ pc = "uf_force_delete"
    /\ UNCHANGED <<inputs, ri, cb, envLeft>>
    /\ \E ans \in WriteAnswers(host, uf.branch, uf.path, uf.delSha) :
         LET f == [uf EXCEPT !.deletes = @ + 1]
         IN  /\ Charge(ans, Write(host, uf.branch, uf.path, uf.delSha))
             /\ calls' = Append(calls, Call("delete_file", uf.branch, uf.path,
                                            uf.delSha, Str("Forcing update"), ans))
             /\ IF ans = "ok"
                THEN /\ host' = HostDelete(host, uf.branch, base_branch, uf.path)
                     /\ uf' = f
                     /\ pc' = "uf_force_create"
                     /\ UNCHANGED <<results, loc, prf>>
                ELSE /\ UNCHANGED host
                     /\ FileReturn(f, FALSE, "Force update attempt failed", NoSha)

\* Force update: repo.create_file with the content computed before
UfForceCreate ==
    /\ pc = "uf_force_create"
    /\ UNCHANGED <<inputs, ri, cb, envLeft>>
    /\ \E ans \in WriteAnswers(host, uf.branch, uf.path, NoSha) :
         LET f == [uf EXCEPT !.writes = @ + 1]
         IN  /\ Charge(ans, Write(host, uf.branch, uf.path, NoSha))
             /\ calls' = Append(calls, Call("create_file", uf.branch, uf.path,
                                            NoSha, uf.msg, ans))
             /\ IF ans = "ok"
                THEN /\ host' = HostPut(host, uf.branch, base_branch, uf.path,
                                        uf.toWrite)
                     /\ FileReturn(f, TRUE, "force updated (deleted and recreated)",
                                   Sha(uf.toWrite))
                ELSE /\ UNCHANGED host
                     /\ FileReturn(f, FALSE, "Force update attempt failed", NoSha)

\* ------------------------------------------------- Update: the target files
RECURSIVE StripSlashes(_)
StripSlashes(t) ==
    IF t # <<>> /\ Head(t) = "/" THEN StripSlashes(Tail(t))
    ELSE IF t # <<>> /\ t[Len(t)] = "/" THEN StripSlashes(SubSeq(t, 1, Len(t) - 1))
    ELSE t

\* fnmatch.fnmatch(name, pattern) over the file names of the model.
FnMatch(name, pat) ==
    \/ pat = name
    \/ pat = Str("*")
    \/ pat = Str("*.md") /\ name \in {OldPath, OtherPath}

\* The files of the git tree of a branch, in the order of the tree.
TreeOrder == <<VersionPath, OtherPath, ConfigPath, OldPath>>
RECURSIVE Subsequences(_)
Subsequences(q) ==
    IF q = <<>> THEN {<<>>}
    ELSE LET rest == Subsequences(Tail(q))
         IN  rest \cup {<<Head(q)>> \o r : r \in rest}
\* search_dir and the test of the tree walk: a file is kept when no
\* directory is asked for, when it lies under the directory, or when its path
\* is the directory's.
InSearchDir(p, dir) ==
    \/ dir = <<>>
    \/ OccursAt(p, dir \o <<"/">>, 1)
    \/ p = dir
RECURSIVE SelectSeq2(_, _, _, _)
SelectSeq2(q, h, b, f) ==
    IF q = <<>> THEN <<>>
    ELSE (IF /\ HasFile(h, b, Head(q))
             /\ InSearchDir(Head(q), StripSlashes(f.path))
             /\ (f.filter = <<>> \/ FnMatch(Head(q), f.filter))
             /\ (f.query = <<>> \/ Contains(h.files[<<b, Head(q)>>], f.query))
          THEN <<Head(q)>> ELSE <<>>) \o SelectSeq2(Tail(q), h, b, f)

\* Scenario A: the target path is given without a trailing slash and is a
\* file of the branch.
DirectFile(h, b, path) ==
    /\ path # <<>>
    /\ path[Len(path)] # "/"
    /\ HasFile(h, b, path)

\* A faulty variant of the result below: without criteria every file of the
\* branch is a target.
NoCriteriaResult_all(h, b) ==
    [files |-> SelectSeq2(TreeOrder, h, b,
                          [path |-> <<>>, filter |-> <<>>, query |-> <<>>]),
     error |-> ""]
\* The final else of find_target_files: no content query and no filename
\* filter, and the target path was not a file.
NoCriteriaResult(h, b) == [files |-> <<>>, error |-> "Insufficient criteria"]

\* find_target_files: what it can return when the host answers every call
\* ("ok"), when a call about the repository, the path or the search fails
\* ("err"), and when the host fails to give the details of some matching
\* files, which are then skipped ("skipped").
find_target_files(ans, h, b, f) ==
    IF ans = "err" THEN {[files |-> <<>>, error |-> "GitHub API error"]}
    ELSE IF DirectFile(h, b, f.path)
    THEN IF ans = "skipped" THEN {}
         ELSE IF f.query # <<>> /\ ~Contains(h.files[<<b, f.path>>], f.query)
              THEN {[files |-> <<>>, error |-> ""]}
              ELSE {[files |-> <<f.path>>, error |-> ""]}
    ELSE IF f.query # <<>> \/ f.filter # <<>>
    THEN {[files |-> fs, error |-> ""] :
             fs \in IF ans = "ok" THEN {SelectSeq2(TreeOrder, h, b, f)}
                   ELSE Subsequences(SelectSeq2(TreeOrder, h, b, f))
                        \ {SelectSeq2(TreeOrder, h, b, f)}}
    ELSE IF ans = "skipped" THEN {}
         ELSE {NoCriteriaResult(h, b)}

\* target_branch_for_action.strip() on a name of the form that is None (which
\* process_placeholders_in_string returns as it is): the AttributeError, which
\* no handler of the executor catches.
StripRaises(bn) == bn = NoneValue

\* target_branch_for_action of execute_update_file_action.
UpdateBranch(m) ==
    LET m0 == [k \in (DOMAIN m) \ {Str("file_path")} |-> m[k]]
        r  == _process_action_params([branch_name |-> cfg.branch_name], m0,
                                     {"branch_name"})
        part == IF Strip(cfg.file_path) # <<>> THEN "update-file" ELSE "update-files"
    IN  [branch |-> IF Strip(r.params.branch_name) = <<>>
                    THEN <<part, "-fallback-">> \o TimestampStr
                    ELSE r.params.branch_name,
         log |-> r.log]

\* repo_api = g.get_repo(repo_info.full_name)
UpdateGetRepo ==
    /\ pc = "u_get_repo"
    /\ \E ans \in {"ok"} \cup Injected({"err"}) :
         /\ Charge(ans, {"ok"})
         /\ calls' = Append(calls, Call("get_repo", <<>>, <<>>, NoSha, <<>>, ans))
         /\ IF ans = "ok"
            THEN pc' = "resolve" /\ UNCHANGED <<results, loc>>
            ELSE LET lg == Append(loc.log, Line("no_repo", <<>>))
                 IN  loc' = [loc EXCEPT !.log = lg] /\ Finish(lg, FALSE, 0)
    /\ UNCHANGED <<inputs, ri, cb, uf, prf, host, envLeft>>

\* execute_update_file_action between the placeholders and the first host
\* call about the targets: one specific path, or the criteria of a search.
UpdateLocate ==
    /\ pc = "resolve"
    /\ kind = "update"
    /\ loc.phIdx > Len(defs)
    /\ LET specific == Strip(cfg.file_path)
           path == process_placeholders_in_string(specific, loc.resolved)
           f == [path |-> process_placeholders_in_string(cfg.target_path, loc.resolved),
                 filter |-> process_placeholders_in_string(cfg.filename_filter, loc.resolved),
                 query |-> process_placeholders_in_string(cfg.content_query, loc.resolved)]
           lg1 == Append(loc.log, Line("specific_path", path))
           lg2 == Append(loc.log, Line("finding", f.filter))
       IN  IF specific # <<>>
           THEN IF PathMissing(path)
                THEN /\ loc' = [loc EXCEPT !.log = Append(lg1, Line("path_empty", <<>>))]
                     /\ Finish(Append(lg1, Line("path_empty", <<>>)), FALSE, 0)
                ELSE /\ loc' = [loc EXCEPT !.log = lg1, !.path = path]
                     /\ pc' = "u_probe"
                     /\ UNCHANGED results
           ELSE IF f.filter = <<>> /\ f.query = <<>> /\ StripSlashes(f.path) = <<>>
                THEN /\ loc' = [loc EXCEPT !.log = Append(lg2, Line("no_criteria", <<>>))]
                     /\ Finish(Append(lg2, Line("no_criteria", <<>>)), FALSE, 0)
                ELSE /\ loc' = [loc EXCEPT !.log = lg2, !.find = f]
                     /\ pc' = "u_find"
                     /\ UNCHANGED results
    /\ UNCHANGED <<inputs, ri, calls, cb, uf, prf, host, envLeft, faultsLeft>>

\* Single file: get_file_content on the default branch, then the branch name.
UpdateProbe ==
    /\ pc = "u_probe"
    /\ \E ans \in GetContentsAnswers(host, base_branch, loc.path) :
         LET fc == get_file_content(ans, host, base_branch, loc.path)
             b  == UpdateBranch(loc.resolved)
             tag == IF ans = "err" THEN "probe_warning"
                    ELSE IF fc.sha # NoSha THEN "probe_exists" ELSE "probe_new"
         IN  /\ Charge(ans, GetContents(host, base_branch, loc.path))
             /\ calls' = Append(calls, Call("get_contents", base_branch, loc.path,
                                            NoSha, <<>>, ans))
             /\ loc' = [loc EXCEPT !.log = Append(@, Line(tag, loc.path)) \o b.log,
                                   !.targets = <<loc.path>>, !.shas = <<fc.sha>>,
                                   !.branch = b.branch]
             /\ pc' = IF StripRaises(cfg.branch_name) THEN "raised" ELSE "br_check"
    /\ UNCHANGED <<inputs, ri, results, cb, uf, prf, host, envLeft>>

\* The .sha of the ContentFile objects find_target_files returns: the hashes
\* of the files on the branch it searched.
ShasOn(h, b, fs) ==
    [i \in 1..Len(fs) |-> IF HasFile(h, b, fs[i]) THEN Sha(h.files[<<b, fs[i]>>])
                          ELSE NoSha]

\* A faulty variant of the result below: no file found is a failure.
NoFilesResult_failure(lg) == Finish(lg, FALSE, 0)
\* if not target_files_result.files: the repository is skipped with
\* success=True.
NoFilesResult(lg) == Finish(lg, TRUE, 0)

\* Several files: find_target_files on the default branch, then the branch
\* name.
UpdateFind ==
    /\ pc = "u_find"
    /\ \E ans \in {"ok"} \cup Injected({"err", "skipped"}) :
         \E r \in find_target_files(ans, host, base_branch, loc.find) :
           LET b == UpdateBranch(loc.resolved)
               bad == Append(loc.log, Line("find_error", Str(r.error)))
               none == Append(loc.log, Line("no_files_found", <<>>))
           IN  /\ Charge(ans, {"ok"})
               /\ calls' = Append(calls, Call("find_target_files", base_branch,
                                              <<>>, NoSha, <<>>, ans))
               /\ CASE r.error # "" ->
                         loc' = [loc EXCEPT !.log = bad] /\ Finish(bad, FALSE, 0)
                    [] r.error = "" /\ r.files = <<>> ->
                         loc' = [loc EXCEPT !.log = none] /\ NoFilesResult(none)
                    [] OTHER ->
                         /\ loc' = [loc EXCEPT !.log = Append(@, Line("found", <<>>))
                                                      \o b.log,
                                               !.targets = r.files,
                                               !.shas = ShasOn(host, base_branch, r.files),
                                               !.branch = b.branch]
                         /\ pc' = IF StripRaises(cfg.branch_name) THEN "raised" ELSE "br_check"
                         /\ UNCHANGED results
    /\ UNCHANGED <<inputs, ri, cb, uf, prf, host, envLeft>>

\* for target_file_obj in target_files_to_process: the arguments of
\* update_file for the next file.
UpdateFileStart ==
    /\ pc = "u_file"
    /\ loc.fi <= Len(loc.targets)
    /\ LET path == loc.targets[loc.fi]
           m == BindFilePath(loc.resolved, path)
           isSR == cfg.update_mode = SearchMode
       IN  /\ uf' = [EmptyUf EXCEPT
                       !.path = path,
                       !.appSha = loc.shas[loc.fi],
                       !.content = IF isSR THEN <<>>
                                   ELSE process_placeholders_in_string(cfg.file_content, m),
                       !.msg = process_placeholders_in_string(cfg.commit_message, m),
                       !.branch = loc.branch,
                       !.mode = cfg.update_mode,
                       !.search = IF isSR
                                  THEN process_placeholders_in_string(cfg.search_string, m)
                                  ELSE <<>>,
                       !.replace = IF isSR
                                   THEN process_placeholders_in_string(cfg.replace_with_string, m)
                                   ELSE <<>>,
                       !.is_regex = cfg.is_regex,
                       !.replace_all = cfg.replace_all,
                       !.fallback = base_branch,
                       !.force = IF isSR THEN cfg.force_update ELSE FALSE]
           /\ loc' = [loc EXCEPT !.lastPath = path,
                                 !.log = Append(@, Line("processing_file", path))]
    /\ pc' = "uf_read"
    /\ UNCHANGED <<inputs, ri, results, calls, cb, prf, host, envLeft, faultsLeft>>

\* After the loop: no pull request when no file was updated, else the pull
\* request with the title and body of the last file.
UpdateFilesDone ==
    /\ pc = "u_file"
    /\ loc.fi > Len(loc.targets)
    /\ LET m == BindFilePath(loc.resolved, loc.lastPath)
           none == Append(loc.log, Line("no_files_changed", <<>>))
       IN  IF ~loc.any
           THEN /\ loc' = [loc EXCEPT !.log = none]
                /\ Finish(none, loc.allOk, 0)
                /\ UNCHANGED prf
           ELSE /\ prf' = [EmptyPr EXCEPT
                             !.head = loc.branch, !.base = base_branch,
                             !.title = process_placeholders_in_string(cfg.pr_title, m),
                             !.body = process_placeholders_in_string(cfg.pr_body, m)]
                /\ loc' = [loc EXCEPT !.log = Append(@, Line("creating_pr", loc.branch))]
                /\ pc' = "pr_query"
                /\ UNCHANGED results
    /\ UNCHANGED <<inputs, ri, calls, cb, uf, host, envLeft, faultsLeft>>

\* ------------------------------------------- the other clients of the host
\* They act while an executor is between two host calls about its working
\* branch.
EnvEnabled ==
    /\ envLeft > 0
    /\ pc \notin {"next", "done", "resolve", "u_get_repo", "u_probe", "u_find",
                 "raised"}
    /\ loc.branch # <<>>
EnvPath == IF uf.path # <<>> THEN uf.path ELSE IF loc.path # <<>> THEN loc.path
           ELSE OldPath
EnvFrame == /\ envLeft' = envLeft - 1
            /\ UNCHANGED <<inputs, ri, pc, results, loc, calls, cb, uf, prf,
                           faultsLeft>>

\* Someone creates the working branch from the default branch.
EnvCreateBranch ==
    /\ EnvEnabled
    /\ ~HasBranch(host, loc.branch)
    /\ host' = HostCreateRef(host, loc.branch, base_branch, host.heads[base_branch])
    /\ EnvFrame

\* Someone commits another content of the target file to the working branch.
EnvModifyFile ==
    /\ EnvEnabled
    /\ HasBranch(host, loc.branch)
    /\ \E c \in {ContentA, ContentB} :
         /\ ~(HasFile(host, loc.branch, EnvPath) /\ host.files[<<loc.branch, EnvPath>>] = c)
         /\ host' = HostPut(host, loc.branch, base_branch, EnvPath, c)
    /\ EnvFrame

\* Someone opens the pull request of the working branch.
EnvOpenPR ==
    /\ EnvEnabled
    /\ loc.branch \in host.ahead
    /\ OpenPrs(host, loc.branch, base_branch) = {}
    /\ host' = HostCreatePull(host, loc.branch, base_branch)
    /\ EnvFrame

\* Someone commits to the default branch.
EnvAdvanceSource ==
    /\ EnvEnabled
    /\ host' = [host EXCEPT !.heads[base_branch] = @ + 1]
    /\ EnvFrame

\* The working branch is merged into the default branch: its pull requests
\* close and it has no commit the default branch lacks.
EnvMerge ==
    /\ EnvEnabled
    /\ loc.branch \in host.ahead
    /\ host' = [host EXCEPT !.ahead = @ \ {loc.branch},
                            !.prs = {q \in @ : q.head # loc.branch},
                            !.heads[base_branch] = @ + 1]
    /\ EnvFrame

\* ------------------------------------------------------- the batch executors
Next ==
    \/ StartRepo
    \/ EndBatch
    \/ UpdateGetRepo
    \/ ResolvePlaceholder
    \/ RemoveParams
    \/ AddParams
    \/ UpdateLocate
    \/ UpdateProbe
    \/ UpdateFind
    \/ BranchCheck
    \/ CbCheck
    \/ CbSrc
    \/ CbCreate
    \/ CbReread
    \/ RfSha
    \/ RfDelete
    \/ UpdateFileStart
    \/ UpdateFilesDone
    \/ UfRead
    \/ UfSrRead
    \/ UfSrFallback
    \/ UfWrite
    \/ UfForceRefetch
    \/ UfForceDelete
    \/ UfForceCreate
    \/ PrQuery
    \/ PrCreate
    \/ PrRequery
    \/ EnvCreateBranch
    \/ EnvModifyFile
    \/ EnvOpenPR
    \/ EnvAdvanceSource
    \/ EnvMerge

Spec == Init /\ [][Next]_vars

\* ---------------------------------- create_branch and create_pull_request,
\* called directly, one call after the other, on one repository
MaxCalls == 3

InitEnsure ==
    /\ kind = "ensure"
    /\ cfg = BaseCfg
    /\ defs = <<>>
    /\ repos = <<Repo(1)>>
    /\ ri = 1
    /\ pc = "idle"
    /\ results = <<>>
    /\ loc = [EmptyLoc EXCEPT !.branch = CleanupBranch]
    /\ calls = <<>>
    /\ cb = EmptyCb
    /\ uf = EmptyUf
    /\ prf = EmptyPr
    /\ \E t1 \in BOOLEAN, pre \in PreStates \ {"bare"} :
          host = MkHost(Repo(1).default_branch, TRUE, t1, FALSE, pre)
    /\ envLeft = MaxEnv
    /\ faultsLeft = MaxFaults

EnsureFrame ==
    /\ pc = "idle"
    /\ Len(results) < MaxCalls
    /\ loc' = [loc EXCEPT !.before = host, !.budget = <<envLeft, faultsLeft>>]
    /\ calls' = <<>>
    /\ UNCHANGED <<inputs, ri, results, uf, host, envLeft, faultsLeft>>

\* github_utils.create_branch(g, repo, "cleanup", default branch)
CallCreateBranch ==
    /\ EnsureFrame
    /\ cb' = [new |-> CleanupBranch, src |-> base_branch, srcSha |-> 0]
    /\ pc' = "cb_check"
    /\ UNCHANGED prf

\* github_utils.create_pull_request(g, repo, "cleanup", default branch, ...)
CallCreatePullRequest ==
    /\ EnsureFrame
    /\ prf' = [EmptyPr EXCEPT !.head = CleanupBranch, !.base = base_branch,
                              !.title = Str("t"), !.body = Str("b")]
    /\ pc' = "pr_query"
    /\ UNCHANGED cb

NextEnsure ==
    \/ CallCreateBranch
    \/ CallCreatePullRequest
    \/ CbCheck
    \/ CbSrc
    \/ CbCreate
    \/ CbReread
    \/ PrQuery
    \/ PrCreate
    \/ PrRequery
    \/ EnvCreateBranch
    \/ EnvModifyFile
    \/ EnvOpenPR
    \/ EnvAdvanceSource
    \/ EnvMerge

SpecEnsure == InitEnsure /\ [][NextEnsure]_vars

\* ------------------------------------------ calls of the substitution alone
MaxPieces == 3

\* The texts and maps the substitution is called with: texts of up to
\* MaxPieces pieces, maps of the keys a and b.
Pieces ==
    { Tok("a"), TokSp("a"), Tok("b"), TokSp("b"), Tok("c"), TokSp("c"),
      Str("x"), Str("{"), Str("}"), Str(" "), <<"{", "{">>, <<"}", "}">>,
      <<"{", "a", "}", "}">> }
RECURSIVE TextsOf(_)
TextsOf(n) ==
    IF n = 0 THEN {<<>>}
    ELSE LET shorter == TextsOf(n - 1)
         IN  shorter \cup {t \o q : t \in shorter, q \in Pieces}
Texts == TextsOf(MaxPieces)
ValuesA == {Str("v"), <<>>, Tok("a"), Tok("b"), Str("{")}
ValuesB == {Str("w"), Str("{")}
Maps ==
    {<<>>} \cup {Str("a") :> v : v \in ValuesA}
           \cup {(Str("a") :> v) @@ (Str("b") :> w) : v \in ValuesA, w \in ValuesB}

InitSubst ==
    /\ kind = "subst"
    /\ \E t \in Texts, m \in Maps : cfg = [text |-> t, map |-> m]
    /\ defs = <<>>
    /\ repos = <<Repo(1)>>
    /\ ri = 1
    /\ pc = "idle"
    /\ results = <<>>
    /\ loc = EmptyLoc
    /\ calls = <<>>
    /\ cb = EmptyCb
    /\ uf = EmptyUf
    /\ prf = EmptyPr
    /\ host = EmptyHost
    /\ envLeft = 0
    /\ faultsLeft = 0

\* process_placeholders_in_string(T, M)
SubstOnce ==
    /\ kind = "subst"
    /\ results = <<>>
    /\ results' = <<process_placeholders_in_string(cfg.text, cfg.map)>>
    /\ UNCHANGED <<inputs, ri, pc, loc, calls, cb, uf, prf, host, envLeft, faultsLeft>>

\* process_placeholders_in_string(<the result of the first call>, M)
SubstAgain ==
    /\ kind = "subst"
    /\ Len(results) = 1
    /\ results' = Append(results,
                         process_placeholders_in_string(results[1], cfg.map))
    /\ UNCHANGED <<inputs, ri, pc, loc, calls, cb, uf, prf, host, envLeft, faultsLeft>>

NextSubst ==
    \/ SubstOnce
    \/ SubstAgain

SpecSubst == InitSubst /\ [][NextSubst]_vars

\* --------------------------------------------- calls of the extractor alone
MaxPaths == 3
MaxGroupIndex == 2

ContentBare == Str("path:")
ExtractContents ==
    {VersionContent, ContentBare, YamlMapText, JsonMapText, YamlListText,
     BrokenText, ScalarText, <<>>}
PathSet ==
    { Str("version"), Str("VERSION"), Str("empty"), Str("missing"),
      <<"meta", ".", "tag">>, <<"meta", ".", "list", ".", "0">>,
      <<"meta", ".", "list", ".", "5">>, <<"version", ".", "x">>,
      Str("0"), Str("1"), Str(" ") }
RECURSIVE PathLists(_)
PathLists(n) ==
    IF n = 0 THEN {<<>>}
    ELSE LET shorter == PathLists(n - 1)
         IN  shorter \cup {Append(q, x) : q \in shorter, x \in PathSet}
RegexConfigs ==
    {[pattern |-> pat, group_index |-> gi] :
        pat \in {Pattern("path:", 0), Pattern("path:", 1), OptionalPattern("path:"),
                 Pattern("zzz", 1), Pattern("", 0)},
        gi \in (0 - 1)..MaxGroupIndex}
JsonConfigs == {[jsonpath_expression |-> q] : q \in PathSet \cup {<<>>}}
YamlConfigs ==
    {[yaml_path |-> [list |-> l]] : l \in PathLists(MaxPaths)}
    \cup {[yaml_path |-> [str |-> q]] : q \in PathSet \cup {<<" ", "version", " ">>}}
ExtractInputs ==
    {[method |-> "Regex", config |-> c] : c \in RegexConfigs}
    \cup {[method |-> "JSON Path", config |-> c] : c \in JsonConfigs}
    \cup {[method |-> "YAML Path", config |-> c] : c \in YamlConfigs}
    \cup {[method |-> "XML", config |-> [pattern |-> Pattern("", 0), group_index |-> 0]]}

InitExtract ==
    /\ kind = "extract"
    /\ \E x \in ExtractInputs, c \in ExtractContents :
          cfg = [method |-> x.method, config |-> x.config, content |-> c]
    /\ defs = <<>>
    /\ repos = <<Repo(1)>>
    /\ ri = 1
    /\ pc = "idle"
    /\ results = <<>>
    /\ loc = EmptyLoc
    /\ calls = <<>>
    /\ cb = EmptyCb
    /\ uf = EmptyUf
    /\ prf = EmptyPr
    /\ host = EmptyHost
    /\ envLeft = 0
    /\ faultsLeft = MaxFaults

\* The candidate paths the extractor evaluated, in the order it did.
PathsEvaluated(fc, method, config) ==
    LET paths == YamlPathList(config.yaml_path)
        d == yaml_safe_load(fc.content)
    IN  IF method # "YAML Path" \/ fc.error # "" \/ paths = <<>> \/ ~d.ok
        THEN <<>>
        ELSE IF d.data.t \notin {"dict", "list"} THEN <<>>
        ELSE SubSeq(paths, 1, YamlLoop(d.data, paths, 1, YamlStart).tried)

\* extract_placeholder_value(g, repo, branch, file_path, method, config)
\* on a file of the given content, or on a file the host does not give.
ExtractCall ==
    /\ kind = "extract"
    /\ results = <<>>
    /\ \E ans \in {"ok"} \cup Injected({"404", "err"}) :
          LET fc == IF ans = "ok"
                    THEN [content |-> cfg.content, sha |-> Sha(cfg.content),
                          error |-> ""]
                    ELSE [content |-> <<>>, sha |-> NoSha,
                          error |-> IF ans = "404" THEN "file not found"
                                    ELSE "api error"]
          IN  /\ Charge(ans, {"ok"})
              /\ results' = <<extract_placeholder_value(fc, cfg.method, cfg.config)>>
              /\ calls' = PathsEvaluated(fc, cfg.method, cfg.config)
    /\ UNCHANGED <<inputs, ri, pc, loc, cb, uf, prf, host, envLeft>>

NextExtract == ExtractCall

SpecExtract == InitExtract /\ [][NextExtract]_vars

\* ------------------------------------------------- find_target_files alone
\* Target paths: none, the root, a file of the branch, a directory that holds
\* no file, with and without a trailing slash.
FindPaths == {<<>>, Str("/"), <<"/", "/">>, OldPath, <<"docs">>, <<"docs", "/">>}
FindFilters == {<<>>, Str("*.md"), Str("*")}
FindQueries == {<<>>, Str("foo"), Str("zzz")}

InitFind ==
    /\ kind = "find"
    /\ \E p \in FindPaths, fl \in FindFilters, q \in FindQueries :
          cfg = [path |-> p, filter |-> fl, query |-> q]
    /\ defs = <<>>
    /\ repos = <<Repo(1)>>
    /\ ri = 1
    /\ pc = "idle"
    /\ results = <<>>
    /\ loc = EmptyLoc
    /\ calls = <<>>
    /\ cb = EmptyCb
    /\ uf = EmptyUf
    /\ prf = EmptyPr
    /\ \E ver \in BOOLEAN, t1 \in BOOLEAN, t2 \in BOOLEAN, pre \in PreStates :
          host = MkHost(base_branch, ver, t1, t2, pre)
    /\ envLeft = 0
    /\ faultsLeft = MaxFaults

\* find_target_files(g, repo_full_name, target_branch, target_path_input,
\* filename_filter_input, content_query_input) on the default branch.
FindCall ==
    /\ kind = "find"
    /\ results = <<>>
    /\ \E ans \in {"ok"} \cup Injected({"err", "skipped"}) :
         \E r \in find_target_files(ans, host, base_branch, cfg) :
            /\ Charge(ans, {"ok"})
            /\ results' = <<r>>
            /\ calls' = <<Call("find_target_files", base_branch, cfg.path,
                               NoSha, <<>>, ans)>>
    /\ UNCHANGED <<inputs, ri, pc, loc, cb, uf, prf, host, envLeft>>

NextFind == FindCall

SpecFind == InitFind /\ [][NextFind]_vars

\* ---------------------------------------------------------------- properties
\* The result of the repository at ri has been appended and nothing of the
\* next repository has started.
Finished == pc \in {"next", "done"} /\ ri >= 1 /\ Len(results) = ri
\* No failure of the host's own and no step of another client fell into the
\* processing of the repository at ri.
Undisturbed == <<envLeft, faultsLeft>> = loc.budget
Count(op) == Cardinality({i \in 1..Len(calls) : calls[i].op = op})
HasLine(lg, tag, txt) == \E j \in 1..Len(lg) : lg[j].tag = tag /\ lg[j].txt = txt

\* C1: whatever the host answers at whatever step, the executors return
\* exactly one result per repository, in the order of the input: a repository
\* that fails still contributes its result and the batch goes on to the next.
C1_OneResultPerRepository ==
    /\ Len(results) = (IF pc \in {"next", "done"} THEN ri ELSE ri - 1)
    /\ \A i \in 1..Len(results) : results[i].repo = repos[i].name
    /\ pc = "done" => Len(results) = Len(repos)

\* A batch of two repositories has ended, the first failed after its working
\* branch was created, the second succeeded.
C1_Witness ==
    /\ pc = "done"
    /\ Len(repos) = 2
    /\ ~results[1].success
    /\ \E j \in 1..Len(results[1].message) : results[1].message[j].tag = "branch_op"
    /\ results[2].success

IsValidDef(d) == ~(d.name = <<>> \/ d.file_path = <<>> \/ d.method = "")
ValidDefs == SelectSeq(defs, IsValidDef)
\* Update asks the host for the repository before it reads any source file.
FirstRead == IF kind = "update" THEN 2 ELSE 1
\* The error of the extractor at the k-th valid definition, "" when it
\* extracts: the source was not read, or the pattern of a Regex definition
\* matches nowhere in it.
ExtractorError(k) ==
    LET i == FirstRead + k - 1
        d == ValidDefs[k]
    IN  IF i > Len(calls) \/ calls[i].op # "get_contents" THEN ""
        ELSE IF calls[i].ans = "404" THEN "file not found"
        ELSE IF calls[i].ans = "err" THEN "api error"
        ELSE IF d.method = "Regex"
                /\ RegexSearch(d.config.pattern,
                               host.files[<<base_branch, d.file_path>>]) = 0
        THEN "regex did not match"
        ELSE ""

\* C2: when the extractor returns an error for a placeholder definition, the
\* repository's result is a failure whose message holds that error, the read
\* of the source file was the last call made to the host for that repository
\* (no branch, no file change, no pull request), and the batch is not ended
\* before the repositories after it.
C2_ExtractorErrorFailsRepository ==
    \A k \in 1..Len(ValidDefs) :
       (ri >= 1 /\ ExtractorError(k) # "") =>
          /\ Finished
          /\ ~results[ri].success
          /\ HasLine(results[ri].message, "ph_error", Str(ExtractorError(k)))
          /\ Len(calls) = FirstRead + k - 1
          /\ host = loc.before
          /\ pc = "done" => ri = Len(repos)

\* The source file of a placeholder is absent in the first repository, which
\* fails; the second repository of the batch ends with a pull request.
C2_Witness ==
    /\ pc = "done"
    /\ Len(repos) = 2
    /\ ~results[1].success
    /\ HasLine(results[1].message, "ph_error", Str("file not found"))
    /\ results[2].success
    /\ results[2].pr_url # 0

\* The calls of Remove that the scenario of C3 is about.
IsRemoveStep(c) ==
    \/ c.op \in {"create_git_ref", "delete_file", "create_pull"}
    \/ c.op = "get_contents" /\ c.br = loc.branch
RemoveSteps == SelectSeq(calls, IsRemoveStep)
RemoveCase ==
    /\ kind = "remove"
    /\ Finished
    /\ Undisturbed
    /\ loc.path # <<>>
    /\ HasFile(loc.before, base_branch, loc.path)
    /\ ~HasBranch(loc.before, loc.branch)

\* C3: Remove of a file that exists, with a working branch that does not yet
\* exist and a host that answers every call: the working branch is created
\* from the default branch, then the hash of the file is read on the working
\* branch, then the file is deleted with that hash and the commit message in
\* which {{file_path}} stands replaced by the path, then the pull request is
\* opened from the working branch to the default branch; the result is a
\* success that carries the URL of that pull request.
C3_RemoveScenario ==
    RemoveCase =>
       /\ Len(RemoveSteps) = 4
       /\ RemoveSteps[1].op = "create_git_ref"
       /\ RemoveSteps[1].br = loc.branch
       /\ cb.src = base_branch
       /\ RemoveSteps[2].op = "get_contents"
       /\ RemoveSteps[2].path = loc.path
       /\ RemoveSteps[3].op = "delete_file"
       /\ RemoveSteps[3].br = loc.branch
       /\ RemoveSteps[3].path = loc.path
       /\ RemoveSteps[3].sha = Sha(loc.before.files[<<base_branch, loc.path>>])
       /\ RemoveSteps[3].msg = <<"Change", " ">> \o loc.path
       /\ RemoveSteps[4].op = "create_pull"
       /\ RemoveSteps[4].br = loc.branch
       /\ prf.base = base_branch
       /\ ~HasFile(host, loc.branch, loc.path)
       /\ results[ri].success
       /\ results[ri].pr_url # 0
       /\ \E q \in host.prs : /\ q.url = results[ri].pr_url
                              /\ q.head = loc.branch
                              /\ q.base = base_branch

\* Remove has ended with a pull request for a path that came from a
\* placeholder, on a working branch it created.
C3_Witness ==
    /\ RemoveCase
    /\ defs # <<>>
    /\ loc.path = OldPath
    /\ results[ri].success
    /\ results[ri].pr_url # 0

\* The pull-request step was reached for the repository at ri.
PrStepReached == Count("get_pulls") > 0
\* create_pull_request answered that the branches have no commits between
\* them.
NoCommitsReported == prf.msg = "No new commits to create a Pull Request"
\* Every file operation of the repository at ri succeeded (Remove and Add
\* reach the pull request only then).
FileOpsSucceeded == kind = "update" => loc.allOk

\* C4 as the specification states it: a result given after the pull-request
\* step was reached is a success only if every file operation succeeded and
\* the step gave a URL or reported that there are no commits between the
\* branches.
C4_SuccessNeedsPullRequest ==
    (Finished /\ PrStepReached /\ results[ri].success) =>
       /\ FileOpsSucceeded
       /\ results[ri].pr_url # 0 \/ NoCommitsReported

\* C5 as the specification states it: when every file operation succeeded
\* and the host answers the creation of the pull request with "No commits
\* between", the result of the repository is a success.
C5_NoCommitsIsSuccess ==
    (Finished /\ PrStepReached /\ FileOpsSucceeded /\ NoCommitsReported) =>
       results[ri].success

\* The search string of the form occurs in no file of the repository, before
\* the executor started or now.
SearchOccursNowhere ==
    /\ \A k \in DOMAIN host.files : ~Contains(host.files[k], cfg.search_string)
    /\ \A k \in DOMAIN loc.before.files :
          ~Contains(loc.before.files[k], cfg.search_string)
TargetsExist ==
    /\ loc.targets # <<>>
    /\ \A i \in 1..Len(loc.targets) : HasFile(loc.before, base_branch, loc.targets[i])

\* C6 as the specification states it: Update in search/replace mode, the
\* search string in none of the target files: no pull request is queried or
\* created and the result is a success.
C6_NoChangeNoPullRequest ==
    (/\ kind = "update"
     /\ cfg.update_mode = SearchMode
     /\ Finished
     /\ Undisturbed
     /\ TargetsExist
     /\ SearchOccursNowhere) =>
       /\ Count("get_pulls") = 0
       /\ Count("create_pull") = 0
       /\ results[ri].success

\* C7 as the specification states it: update_file in search/replace mode
\* with force_update, the write rejected because the hash read from the
\* working branch is no longer the hash of the file: the file is deleted and
\* created again, and update_file returns success with a new hash.
C7_ForceOverridesStaleHash ==
    (uf.done /\ uf.mode = SearchMode /\ uf.force /\ uf.stale) =>
       /\ uf.success
       /\ uf.new_sha # uf.sha
       /\ uf.deletes = 1

\* C8: update_file answers a conflict on its write with a failure, without a
\* delete and without a second write, when force_update is off or the mode
\* is "Replace entire content"; the delete and second write happen at most
\* once for a file, only after a conflict in search/replace mode with
\* force_update; and no other call that changes the host is ever repeated.
C8_OneRetryOnly ==
    /\ (uf.done /\ uf.conflict /\ ~(cfg.force_update /\ uf.mode = SearchMode)) =>
          (~uf.success /\ uf.deletes = 0 /\ uf.writes = 1)
    /\ uf.deletes <= 1
    /\ uf.writes <= 2
    /\ (uf.deletes > 0 \/ uf.writes > 1) =>
          (uf.conflict /\ cfg.force_update /\ uf.mode = SearchMode)
    /\ uf.writes > 1 => uf.deletes = 1
    /\ Count("create_git_ref") <= 1
    /\ Count("create_pull") <= 1
    /\ kind = "remove" => Count("delete_file") <= 1

\* A write in "Replace entire content" mode met a conflict although the form
\* asked for force_update, and update_file has returned.
C8_Witness ==
    /\ uf.done
    /\ uf.conflict
    /\ cfg.force_update
    /\ uf.mode = ReplaceMode
    /\ ~uf.success
    /\ uf.writes = 1

\* The direct calls of one function, by their position in the sequence of
\* calls.
CallsOf(fn) == {i \in 1..Len(results) : results[i].fn = fn}
\* The call at i met no failure of the host's own and no step of another
\* client.
QuietCall(i) == results[i].faults = 0 /\ results[i].env = 0
OpenBefore(i) == OpenPrs(results[i].before, CleanupBranch, base_branch)
OpenAfter(i) == OpenPrs(results[i].after, CleanupBranch, base_branch)

\* C9: create_pull_request returns the URL of the open pull request of the
\* same head and base when there is one, and creates none; so of two calls
\* in a row with the same repository, head and base, the first of which
\* created the pull request, the second returns the same URL and exactly one
\* pull request is open for that head and base.
C9_PullRequestEnsuredOnce ==
    /\ \A i \in CallsOf("create_pull_request") :
          (QuietCall(i) /\ OpenBefore(i) # {}) =>
             /\ results[i].url \in {q.url : q \in OpenBefore(i)}
             /\ results[i].after = results[i].before
             /\ \A j \in 1..Len(results[i].calls) :
                   results[i].calls[j].op # "create_pull"
    /\ \A i \in CallsOf("create_pull_request") :
          (/\ i + 1 \in CallsOf("create_pull_request")
           /\ results[i].url # 0
           /\ results[i].msg = ""
           /\ results[i + 1].before = results[i].after
           /\ QuietCall(i + 1)) =>
             /\ results[i + 1].url = results[i].url
             /\ Cardinality(OpenAfter(i + 1)) = 1

\* Two calls in a row: the first created the pull request, the second
\* returned its URL.
C9_Witness ==
    \E i \in CallsOf("create_pull_request") :
       /\ i + 1 \in CallsOf("create_pull_request")
       /\ results[i].url # 0
       /\ results[i].msg = ""
       /\ results[i + 1].before = results[i].after
       /\ QuietCall(i + 1)
       /\ results[i + 1].url = results[i].url

HeadOf(h) == h.heads[CleanupBranch]
CreatedRef(i) ==
    \E j \in 1..Len(results[i].calls) :
       results[i].calls[j].op = "create_git_ref" /\ results[i].calls[j].ans = "ok"

\* C10: create_branch succeeds whenever the host answers its calls; called a
\* second time with the same names it succeeds again, creates no ref and
\* leaves the head of the branch where it was, also when the source branch
\* has moved on since the first call.
C10_BranchEnsuredOnce ==
    /\ \A i \in CallsOf("create_branch") :
          results[i].faults = 0 => results[i].ok
    /\ \A i \in CallsOf("create_branch"), k \in CallsOf("create_branch") :
          (i < k /\ results[i].ok /\ results[k].faults = 0) =>
             /\ results[k].ok
             /\ ~CreatedRef(k)
             /\ results[k].env = 0 =>
                   HeadOf(results[k].after) = HeadOf(results[k].before)

\* The first call created the branch, the default branch moved on, the
\* second call succeeded.
C10_Witness ==
    \E i \in CallsOf("create_branch") :
       /\ i + 1 \in CallsOf("create_branch")
       /\ CreatedRef(i)
       /\ results[i + 1].before.heads[base_branch] > results[i].after.heads[base_branch]
       /\ results[i + 1].ok
       /\ results[i + 1].faults = 0

\* C11 as the specification states it: once a repository is being processed,
\* the keys repo_name, repo_full_name, repo_default_branch and timestamp of
\* the resolved map hold the built-in values of that repository and batch,
\* also when a placeholder definition carries one of those names.
C11_ReservedKeysKept ==
    ri >= 1 =>
       \A k \in BuiltinNames :
          /\ k \in DOMAIN loc.resolved
          /\ loc.resolved[k] = BuiltinPlaceholders(repo_info)[k]

\* The tokens of the text the substitution was called with, and of a text.
TokensOf(t) == Scan(t, 1)
IsKeyToken(tok) == tok.name \in DOMAIN cfg.map
\* By how much the tokens before the k-th move what comes after them.
RECURSIVE Shift(_, _)
Shift(toks, k) ==
    IF k <= 1 THEN 0
    ELSE Shift(toks, k - 1)
         + (IF IsKeyToken(toks[k - 1])
            THEN Len(cfg.map[toks[k - 1].name])
                 - (toks[k - 1].next - toks[k - 1].start)
            ELSE 0)

\* C12: in the text the substitution returns, every token of T whose name is
\* not a key of M stands as it stood in T, inner whitespace included, at the
\* place the tokens replaced before it leave it; a text without a token
\* naming a key is returned as it is.
C12_UnknownTokensKept ==
    (kind = "subst" /\ Len(results) >= 1) =>
       LET toks == TokensOf(cfg.text)
           out  == results[1]
       IN  /\ \A k \in 1..Len(toks) :
                 ~IsKeyToken(toks[k]) =>
                    LET from == toks[k].start + Shift(toks, k)
                        to   == toks[k].next - 1 + Shift(toks, k)
                    IN  /\ to <= Len(out)
                        /\ SubSeq(out, from, to)
                              = SubSeq(cfg.text, toks[k].start, toks[k].next - 1)
           /\ (\A k \in 1..Len(toks) : ~IsKeyToken(toks[k])) => out = cfg.text

\* A token with inner whitespace whose name is no key was kept behind a token
\* that was replaced by a value of another length.
C12_Witness ==
    /\ kind = "subst"
    /\ Len(results) >= 1
    /\ cfg.text = Tok("a") \o TokSp("c")
    /\ cfg.map = (Str("a") :> Str("v"))
    /\ results[1] = Str("v") \o TokSp("c")

\* A text holds a token: some part of it matches the pattern of the tokens.
HasToken(t) == TokensOf(t) # <<>>
\* T holds no token whose name is a key of M with a value that itself holds a
\* token.
NoKeyTokenWithTokenValue ==
    \A k \in 1..Len(TokensOf(cfg.text)) :
       LET tok == TokensOf(cfg.text)[k]
       IN  IsKeyToken(tok) => ~HasToken(cfg.map[tok.name])
\* The text the first call returned holds no token whose name is a key of M.
NoKeyTokenLeft ==
    \A k \in 1..Len(TokensOf(results[1])) : ~IsKeyToken(TokensOf(results[1])[k])

\* C13 as the specification states it: the second call returns what the
\* first returned exactly when T holds no token whose name is a key of M with
\* a value that itself holds a token.
C13_IdempotentExactlyWhen ==
    (kind = "subst" /\ Len(results) = 2) =>
       ((results[2] = results[1]) <=> NoKeyTokenWithTokenValue)

\* C13 as amended: the second call returns what the first returned whenever
\* the text the first call returned holds no token whose name is a key of M.
C13_IdempotentWhenNoKeyTokenLeft ==
    (kind = "subst" /\ Len(results) = 2 /\ NoKeyTokenLeft) =>
       results[2] = results[1]

\* The first call replaced a token by a value that holds a token of no key,
\* and the second call changed nothing.
C13_Witness ==
    /\ kind = "subst"
    /\ Len(results) = 2
    /\ cfg.text = Tok("a") \o TokSp("c")
    /\ cfg.map = (Str("a") :> Tok("b"))
    /\ results[1] = Tok("b") \o TokSp("c")
    /\ results[2] = results[1]

\* What a candidate path stands for in the structured files of the model:
\* a text, null, or an error when the path does not resolve.
Means(is, text) == [is |-> is, text |-> text]
PathMeaning(content, path) ==
    IF content \in {YamlMapText, JsonMapText}
    THEN CASE path \in {Str("version"), Str("VERSION")} -> Means("text", Str("1.2"))
           [] path = <<"meta", ".", "list", ".", "0">> -> Means("text", Str("x"))
           [] path \in {Str("empty"), <<"meta", ".", "tag">>} -> Means("null", <<>>)
           [] OTHER -> Means("error", <<>>)
    ELSE IF content = YamlListText
    THEN CASE path = Str("0") -> Means("text", Str("x"))
           [] path = Str("1") -> Means("null", <<>>)
           [] OTHER -> Means("error", <<>>)
    ELSE Means("error", <<>>)
\* The extractor was called with method "YAML Path" and a list of candidates
\* on a file that was read and holds a mapping or a sequence.
YamlListCase ==
    /\ kind = "extract"
    /\ results # <<>>
    /\ faultsLeft = MaxFaults
    /\ cfg.method = "YAML Path"
    /\ "list" \in DOMAIN cfg.config.yaml_path
    /\ cfg.content \in {YamlMapText, JsonMapText, YamlListText}
\* The candidates of the list that are not blank.
Candidates == SelectSeq(cfg.config.yaml_path.list, LAMBDA q : q # Str(" "))
Meaning(k) == PathMeaning(cfg.content, Candidates[k]).is

\* C14: with method "YAML Path" and a list of candidates, the extractor
\* returns the value of the first candidate, in the order of the list, that
\* resolves to a value that is not null; the candidates after it are not
\* evaluated, and the errors and nulls of those before it give no error.
C14_FirstNonNullWins ==
    YamlListCase =>
       \A k \in 1..Len(Candidates) :
          (/\ Meaning(k) = "text"
           /\ \A j \in 1..(k - 1) : Meaning(j) \in {"null", "error"}) =>
             /\ results[1] = [value |-> PathMeaning(cfg.content, Candidates[k]).text,
                               none |-> FALSE, error |-> ""]
             /\ calls = SubSeq(Candidates, 1, k)

\* The first candidate failed, the second gave the value, the third was not
\* evaluated.
C14_Witness ==
    /\ YamlListCase
    /\ cfg.content = YamlMapText
    /\ cfg.config.yaml_path.list
          = <<Str("missing"), Str("VERSION"), <<"meta", ".", "list", ".", "0">>>>
    /\ results[1].value = Str("1.2")
    /\ results[1].error = ""
    /\ Len(calls) = 2

\* C15 as the specification states it: when every candidate resolves without
\* error but to null the result is value=None with error=None, and an error
\* is returned only when every candidate failed.
C15_AllNullIsNoValue ==
    (YamlListCase /\ Candidates # <<>>) =>
       /\ (\A k \in 1..Len(Candidates) : Meaning(k) = "null") =>
             results[1] = [value |-> <<>>, none |-> TRUE, error |-> ""]
       /\ results[1].error # "" =>
             \A k \in 1..Len(Candidates) : Meaning(k) = "error"

\* What a pattern of the literal "path:" matches in the files VERSION of the
\* model: whether it matches, the whole match, and the text of its group
\* (<<>> when the group took no part).
RegexCase ==
    /\ kind = "extract"
    /\ results # <<>>
    /\ faultsLeft = MaxFaults
    /\ cfg.method = "Regex"
    /\ cfg.config.pattern.lit = "path:"
    /\ \/ cfg.content = VersionContent
       \/ cfg.content = ContentBare
          /\ (cfg.config.pattern.groups = 0 \/ cfg.config.pattern.optional)
WithTail == cfg.content = VersionContent /\ cfg.config.pattern.groups = 1
GroupText(g) ==
    IF g = 0 THEN (IF WithTail THEN VersionContent ELSE Str("path:"))
    ELSE Str("old.md")

\* C16: with method "Regex" and a pattern that matches, a group_index above
\* the number of groups of the pattern gives an error result; a group_index
\* from 0 to the number of groups gives the text of that group, and no value
\* (None) without error for a group that took no part in the match.
C16_GroupIndexChecked ==
    RegexCase =>
       LET gi == cfg.config.group_index
           n  == cfg.config.pattern.groups
       IN  /\ gi > n => (results[1].error # "" /\ results[1].none)
           /\ (0 <= gi /\ gi <= n) =>
                 IF gi = 0 \/ WithTail
                 THEN results[1] = [value |-> GroupText(gi), none |-> FALSE,
                                    error |-> ""]
                 ELSE results[1] = [value |-> <<>>, none |-> TRUE, error |-> ""]

\* A pattern of one group matched and group 2 was asked for: the extractor
\* returned an error.
C16_Witness ==
    /\ RegexCase
    /\ cfg.content = VersionContent
    /\ cfg.config.pattern = Pattern("path:", 1)
    /\ cfg.config.group_index = 2
    /\ results[1].error = "group_index out of bounds"


\* The map the placeholders of the form resolved to, without the file_path
\* key the executors bind afterwards.
ResolvedByDefinitions ==
    [k \in DOMAIN loc.resolved \ {Str("file_path")} |-> loc.resolved[k]]
\* The path of the form after substitution.
PathAfterSubstitution ==
    process_placeholders_in_string(cfg.file_path, ResolvedByDefinitions)
\* The repository at ri is finished, its placeholders were all resolved and
\* the path of the form is empty after substitution.
EmptyPathCase ==
    /\ Finished
    /\ loc.phIdx > Len(defs)
    /\ PathAfterSubstitution = <<>>
\* Every call made for the repository at ri read the source file of a
\* placeholder definition on the default branch.
OnlyPlaceholderReads ==
    /\ Len(calls) <= Len(ValidDefs)
    /\ \A i \in 1..Len(calls) :
          /\ calls[i].op = "get_contents"
          /\ calls[i].br = base_branch
          /\ \E j \in 1..Len(defs) : calls[i].path = defs[j].file_path

\* C18: Remove, the path of the target file empty after substitution: the
\* result of the repository is success=false, and no call on a branch, on the
\* target file or on a pull request is made.
C18_RemoveEmptyPathFails ==
    (kind = "remove" /\ EmptyPathCase) =>
       /\ ~results[ri].success
       /\ results[ri].pr_url = 0
       /\ OnlyPlaceholderReads
       /\ cb = EmptyCb /\ uf = EmptyUf /\ prf = EmptyPr

\* A Remove whose path is a placeholder that resolved to the empty string:
\* the definition's file was read, and the repository is finished.
C18_Witness ==
    /\ kind = "remove"
    /\ EmptyPathCase
    /\ defs = <<DefEmpty>>
    /\ cfg.file_path = Tok("e")
    /\ Len(calls) = 1
    /\ ~results[ri].success


\* Update-or-Create with a path in the form, or Add: the repository at ri is
\* finished, its placeholders were all resolved and the path is the empty
\* string after substitution.
EmptyPathSingleOrAdd ==
    /\ Finished
    /\ loc.phIdx > Len(defs)
    /\ \/ kind = "add" /\ PathAfterSubstitution = <<>>
       \/ /\ kind = "update"
          /\ Strip(cfg.file_path) # <<>>
          /\ process_placeholders_in_string(Strip(cfg.file_path),
                                            ResolvedByDefinitions) = <<>>
\* Every call made for the repository at ri was the executor's get_repo or
\* the read of a placeholder's source file: none on a branch, none that
\* changes a file, none on a pull request.
NoBranchMutationOrPrCall ==
    /\ \A i \in 1..Len(calls) :
          \/ calls[i].op = "get_repo"
          \/ /\ calls[i].op = "get_contents"
             /\ calls[i].br = base_branch
             /\ \E j \in 1..Len(defs) : calls[i].path = defs[j].file_path
    /\ cb = EmptyCb /\ uf = EmptyUf /\ prf = EmptyPr

\* C19 as the specification states it: Update-or-Create with one file, and
\* Add, the path of the target file empty after substitution: the result of
\* the repository is success=true, and no branch, mutation or pull-request
\* call is made.
C19_EmptyPathSucceeds ==
    EmptyPathSingleOrAdd =>
       /\ results[ri].success
       /\ NoBranchMutationOrPrCall

\* C19, amended: in that case the result of the repository is success=false,
\* and no branch, mutation or pull-request call is made.
C19_EmptyPathFails ==
    EmptyPathSingleOrAdd =>
       /\ ~results[ri].success
       /\ results[ri].pr_url = 0
       /\ NoBranchMutationOrPrCall

\* An Update-or-Create whose path in the form is a placeholder that resolved
\* to the empty string: the repository is finished after get_repo and the
\* read of the definition's file.
C19_Witness ==
    /\ kind = "update"
    /\ EmptyPathSingleOrAdd
    /\ defs = <<DefEmpty>>
    /\ Len(calls) = 2
    /\ HasLine(results[ri].message, "path_empty", <<>>)


\* Update-or-Create without a path in the form: the targets come from the
\* locator.
MultiFileMode == kind = "update" /\ Strip(cfg.file_path) = <<>>
\* The last call made for the repository at ri was the locator's, and it
\* returned without an error.  A locator that returns files is followed by
\* the calls on the working branch, so at the end of the repository this is
\* the locator returning no error and no file.
LocatorFoundNothing ==
    /\ Finished
    /\ MultiFileMode
    /\ calls # <<>>
    /\ calls[Len(calls)].op = "find_target_files"
    /\ calls[Len(calls)].ans # "err"
    /\ \A j \in 1..Len(loc.log) : loc.log[j].tag # "find_error"
\* Every call made for the repository at ri was get_repo, the read of a
\* placeholder's source file or the locator's search.
NoCallBeyondLocator ==
    /\ \A i \in 1..Len(calls) :
          \/ calls[i].op \in {"get_repo", "find_target_files"}
          \/ /\ calls[i].op = "get_contents"
             /\ calls[i].br = base_branch
             /\ \E j \in 1..Len(defs) : calls[i].path = defs[j].file_path
    /\ cb = EmptyCb /\ uf = EmptyUf /\ prf = EmptyPr
\* The criteria of the form select no file of the default branch as the
\* repository was when its processing began.
NothingToFind ==
    /\ (loc.find.filter # <<>> \/ loc.find.query # <<>>)
    /\ SelectSeq2(TreeOrder, loc.before, base_branch, loc.find) = <<>>

\* C20: Update with several files, the locator returning no error and no
\* file: the result of the repository is success=true, no branch is created,
\* no file is changed and no pull request is attempted; and a search that
\* nothing disturbs, on a branch where the criteria select no file, ends so.
C20_NoFilesIsSuccess ==
    /\ LocatorFoundNothing =>
          /\ results[ri].success
          /\ results[ri].pr_url = 0
          /\ NoCallBeyondLocator
          /\ host.heads = loc.before.heads \/ envLeft < loc.budget[1]
    /\ (Finished /\ MultiFileMode /\ Undisturbed /\ loc.phIdx > Len(defs)
        /\ NothingToFind) =>
          /\ LocatorFoundNothing
          /\ host = loc.before

\* An Update with the filter "*.md" on a repository whose default branch
\* holds no such file, nothing disturbing it: the locator was called, it
\* returned no error and no file, and the repository is finished.
C20_Witness ==
    /\ LocatorFoundNothing
    /\ Undisturbed
    /\ NothingToFind
    /\ cfg.filename_filter = Str("*.md")
    /\ calls[Len(calls)].ans = "ok"
    /\ results[ri].success
    /\ HasLine(results[ri].message, "no_files_found", <<>>)


\* find_target_files was called alone, with no content query, no filename
\* filter and a target path that is empty or the root.
NoCriteriaCase ==
    /\ kind = "find"
    /\ Len(results) = 1
    /\ cfg.query = <<>>
    /\ cfg.filter = <<>>
    /\ cfg.path \in {<<>>, Str("/"), <<"/", "/">>}

\* C17: find_target_files with no content query, no filename filter and an
\* empty or root target path returns an error and no file; the error is the
\* one of insufficient criteria unless the host failed on the repository.
C17_NoCriteriaIsError ==
    NoCriteriaCase =>
       /\ results[1].error # ""
       /\ results[1].files = <<>>
       /\ calls[1].ans = "ok" => results[1].error = "Insufficient criteria"

\* find_target_files was called with the root as its target path and no
\* other criterion, on a branch that holds files, the host answering: it
\* returned the error of insufficient criteria.
C17_Witness ==
    /\ NoCriteriaCase
    /\ cfg.path = Str("/")
    /\ HasFile(host, base_branch, OldPath)
    /\ calls[1].ans = "ok"
    /\ results[1].error = "Insufficient criteria"


\* The paths of the "Processing file" lines of a log, in the order of the log.
RECURSIVE ProcessedPaths(_)
ProcessedPaths(lg) ==
    IF lg = <<>> THEN <<>>
    ELSE (IF Head(lg).tag = "processing_file" THEN <<Head(lg).txt>> ELSE <<>>)
         \o ProcessedPaths(Tail(lg))
\* The outcomes of update_file in a log, in the order of the log: TRUE for a
\* file that was processed, FALSE for one that failed.
RECURSIVE FileOutcomes(_)
FileOutcomes(lg) ==
    IF lg = <<>> THEN <<>>
    ELSE (IF Head(lg).tag \in {"file_ok", "file_error"}
          THEN <<Head(lg).tag = "file_ok">> ELSE <<>>)
         \o FileOutcomes(Tail(lg))
IsPrefix(a, b) == Len(a) <= Len(b) /\ SubSeq(b, 1, Len(a)) = a

\* C21: Update with several files: the located files are processed in the
\* order of the list, all of them once the first is, whatever the earlier
\* files gave; and the result of the repository is success=false when a file
\* failed, also when other files succeeded and a pull request was created.
C21_EveryFileProcessed ==
    /\ (MultiFileMode /\ ri >= 1 /\ pc # "next" /\ pc # "done") =>
          IsPrefix(ProcessedPaths(loc.log), loc.targets)
    /\ (MultiFileMode /\ Finished /\ ProcessedPaths(results[ri].message) # <<>>) =>
          /\ ProcessedPaths(results[ri].message) = loc.targets
          /\ Len(FileOutcomes(results[ri].message)) = Len(loc.targets)
          /\ (\E i \in 1..Len(loc.targets) : ~FileOutcomes(results[ri].message)[i])
                => ~results[ri].success

\* An Update of two located files: the first failed, the second was
\* processed after it and succeeded, a pull request was created for it, and
\* the result of the repository is a failure that carries the URL.
C21_Witness ==
    /\ MultiFileMode
    /\ Finished
    /\ Len(loc.targets) = 2
    /\ FileOutcomes(results[ri].message) = <<FALSE, TRUE>>
    /\ results[ri].pr_url # 0
    /\ ~results[ri].success


\* C22 as the specification states it: Add writes its file with a create
\* that carries no prior hash, and never with an update of a file that is
\* already at the path on the working branch.
C22_AddOnlyCreates ==
    kind = "add" =>
       \A i \in 1..Len(calls) :
          /\ calls[i].op # "update_file"
          /\ calls[i].op = "create_file" => calls[i].sha = NoSha


\* The path of the one target file of the repository at ri: the path of the
\* form after substitution.
SingleTargetPath ==
    IF kind = "update"
    THEN process_placeholders_in_string(Strip(cfg.file_path), ResolvedByDefinitions)
    ELSE PathAfterSubstitution
\* A field of the form with its tokens replaced, {{file_path}} by path.
FieldWithPath(field, path) ==
    process_placeholders_in_string(cfg[field],
                                   (Str("file_path") :> path) @@ ResolvedByDefinitions)
HasFilePathToken(field) == Contains(cfg[field], Tok("file_path"))
BranchCalls == {"get_git_ref", "get_branch", "create_git_ref"}
CommitCalls == {"create_file", "update_file", "delete_file"}

\* C23 as the specification states it: in the three executors a token
\* {{file_path}} in the branch name, the commit message, the title and the
\* body of the pull request is replaced by the path of the target file after
\* substitution in what is sent to the host: the branch of the calls on the
\* working branch, the message of each commit, the title and body of the
\* pull request created.
C23_FilePathTokenResolved ==
    (ri >= 1 /\ ~MultiFileMode /\ loc.phIdx > Len(defs)) =>
       \A i \in 1..Len(calls) :
          /\ (/\ calls[i].op \in BranchCalls
              /\ calls[i].br # base_branch
              /\ HasFilePathToken("branch_name")) =>
                calls[i].br = FieldWithPath("branch_name", SingleTargetPath)
          /\ (/\ calls[i].op \in CommitCalls
              /\ calls[i].msg # Str("Forcing update")
              /\ HasFilePathToken("commit_message")) =>
                calls[i].msg = FieldWithPath("commit_message", calls[i].path)
          /\ (calls[i].op = "create_pull" /\ HasFilePathToken("pr_title")) =>
                calls[i].msg = FieldWithPath("pr_title", SingleTargetPath)
          /\ (calls[i].op = "create_pull" /\ HasFilePathToken("pr_body")) =>
                prf.body = FieldWithPath("pr_body", SingleTargetPath)


\* The definitions the resolver is past: the valid ones were extracted, the
\* others skipped.
PassedDefs == {j \in 1..Len(defs) : j < loc.phIdx}
ExtractedDefs == {j \in PassedDefs : IsValidDef(defs[j])}
\* The resolver is in its loop or has left it, and the executor has not yet
\* taken the map for the parameters of its action.
Resolving == ri >= 1 /\ loc.params = EmptyParams /\ kind \in {"remove", "add", "update"}
\* The resolver stopped at the definition at phIdx on an error of the
\* extractor.
StoppedOnError ==
    /\ Resolving
    /\ Finished
    /\ loc.phIdx <= Len(defs)
    /\ \E j \in 1..Len(results[ri].message) : results[ri].message[j].tag = "ph_error"
\* What the extractor gives for a definition whose source file the host
\* returned.
ValueOf(d) ==
    LET r == extract_placeholder_value(
                 get_file_content("ok", loc.before, base_branch, d.file_path),
                 d.method, d.config)
    IN  IF r.none THEN <<>> ELSE r.value
\* The calls made so far that read the source file of a definition.
SourceReads == Len(calls) - (FirstRead - 1)

\* C24: the resolver takes the definitions in the order of the list; one
\* without a name, a path or a method is skipped with a warning and the loop
\* goes on; the first error of the extractor ends the loop, no later
\* definition is extracted and the repository fails; and the map holds the
\* built-ins and the definitions extracted before, no other name.
C24_ResolverStopsAtFirstError ==
    Resolving =>
       /\ DOMAIN loc.resolved =
             BuiltinNames \cup {defs[j].name : j \in ExtractedDefs}
       /\ \A j \in ExtractedDefs :
             (\A k \in ExtractedDefs : k > j => defs[k].name # defs[j].name) =>
                loc.resolved[defs[j].name] = ValueOf(defs[j])
       /\ \A k \in BuiltinNames :
             (\A j \in ExtractedDefs : defs[j].name # k) =>
                loc.resolved[k] = BuiltinPlaceholders(repo_info)[k]
       /\ \A j \in PassedDefs \ ExtractedDefs :
             HasLine(loc.log, "ph_skipped", defs[j].name)
       /\ (pc = "resolve" \/ StoppedOnError) =>
             /\ SourceReads = Cardinality(ExtractedDefs)
                                 + (IF StoppedOnError THEN 1 ELSE 0)
             /\ \A i \in 1..Len(calls) :
                   i >= FirstRead => calls[i].op = "get_contents"
       /\ StoppedOnError =>
             /\ ~results[ri].success
             /\ IsValidDef(defs[loc.phIdx])
             /\ calls[Len(calls)].path = defs[loc.phIdx].file_path

\* A list of five definitions: the first was extracted, the second skipped
\* for its empty name, the third extracted, the fourth failed; the fifth was
\* never read and the map holds the first and the third.
C24_Witness ==
    /\ StoppedOnError
    /\ Len(defs) = 5
    /\ loc.phIdx = 4
    /\ SourceReads = 3
    /\ HasLine(loc.log, "ph_skipped", <<>>)
    /\ DOMAIN loc.resolved = BuiltinNames \cup {Str("z"), Str("p")}
    /\ loc.resolved[Str("p")] = OldPath


\* The definition at k reads a JSON file with a path whose segments all
\* resolve and whose last node is null, and the host returned the file.
JsonNullCase(k) ==
    /\ ri >= 1
    /\ k \in 1..Len(defs)
    /\ defs[k].method = "JSON Path"
    /\ HasFile(loc.before, base_branch, defs[k].file_path)
    /\ json_loads(loc.before.files[<<base_branch, defs[k].file_path>>]).ok
    /\ PathMeaning(loc.before.files[<<base_branch, defs[k].file_path>>],
                   defs[k].config.jsonpath_expression) = Means("null", <<>>)
    /\ Len(calls) >= FirstRead + k - 1
    /\ calls[FirstRead + k - 1].op = "get_contents"
    /\ calls[FirstRead + k - 1].ans = "ok"

\* C25: a JSON path whose segments all resolve and whose last node is null
\* is no error: the resolver stores the empty string under the name of the
\* placeholder and the repository is processed as any other; undisturbed,
\* Remove of a file that exists ends with its pull request.
C25_JsonNullIsEmptyValue ==
    \A k \in 1..Len(defs) :
       (JsonNullCase(k) /\ ValidDefs = defs) =>
          /\ loc.phIdx > k
          /\ defs[k].name \in DOMAIN loc.resolved
          /\ loc.resolved[defs[k].name] = <<>>
          /\ \/ \A j \in 1..Len(loc.log) : loc.log[j].tag # "ph_error"
             \/ loc.phIdx <= Len(defs)
          /\ RemoveCase =>
                /\ results[ri].success
                /\ results[ri].pr_url # 0
                /\ prf.body = <<"tag", " ">>

\* Remove with a placeholder that reads a null node of config.json: the
\* repository ended with a pull request whose body holds the empty string
\* where the token stood.
C25_Witness ==
    /\ JsonNullCase(1)
    /\ defs = <<DefJsonNull>>
    /\ RemoveCase
    /\ loc.resolved[Str("j")] = <<>>
    /\ results[ri].success
    /\ results[ri].pr_url # 0
    /\ prf.body = <<"tag", " ">>


PullRequestCalls == {"get_pulls", "create_pull"}
\* The call at i told the executor that its working branch is there: the
\* branch was found, or its ref was created.
BranchEnsuredAt(i) ==
    /\ calls[i].op \in BranchCalls
    /\ calls[i].br = loc.branch
    /\ calls[i].ans = "ok"
\* The executor asked for its working branch and never learnt that it is
\* there.
BranchEnsureFailed ==
    /\ Finished
    /\ \E i \in 1..Len(calls) : calls[i].op \in BranchCalls
    /\ ~\E i \in 1..Len(calls) : BranchEnsuredAt(i)

\* C26: in a repository no delete, update or create of a file is issued
\* before the working branch was found or created, and no call about a pull
\* request before a change of a file of this run succeeded; when the working
\* branch could not be ensured the result is success=false, without a change
\* of a file and without a call about a pull request.
C26_BranchThenFileThenPullRequest ==
    /\ \A i \in 1..Len(calls) :
          calls[i].op \in CommitCalls =>
             \E j \in 1..(i - 1) : BranchEnsuredAt(j)
    /\ \A i \in 1..Len(calls) :
          calls[i].op \in PullRequestCalls =>
             \E j \in 1..(i - 1) : calls[j].op \in CommitCalls /\ calls[j].ans = "ok"
    /\ BranchEnsureFailed =>
          /\ ~results[ri].success
          /\ results[ri].pr_url = 0
          /\ \A i \in 1..Len(calls) :
                calls[i].op \notin CommitCalls \cup PullRequestCalls

\* The host rejected the creation of the working branch: the repository is
\* finished as a failure, and its last call was that creation.
C26_Witness ==
    /\ BranchEnsureFailed
    /\ calls[Len(calls)].op = "create_git_ref"
    /\ calls[Len(calls)].ans = "err"
    /\ ~results[ri].success


\* The calls that create the ref of the working branch.
RefCreations == {i \in 1..Len(calls) : calls[i].op = "create_git_ref"}
\* The creation at i was rejected, the branch was read again and found, and
\* the executor went on to its file: the call after the second read, when the
\* repository is finished, is the read of a file on the working branch.
RereadAndProceeded(i) ==
    /\ pc # "cb_reread" =>
          /\ Len(calls) > i
          /\ calls[i + 1].op = "get_branch"
          /\ calls[i + 1].br = calls[i].br
    /\ (Len(calls) > i /\ calls[i + 1].ans = "ok") =>
          /\ HasLine(loc.log, "branch_op",
                     Str("using existing branch (confirmed by create_git_ref failure)"))
          /\ Finished =>
                /\ Len(calls) > i + 1
                /\ calls[i + 2].op = "get_contents"
                /\ calls[i + 2].br = calls[i].br
    /\ (Len(calls) > i /\ calls[i + 1].ans # "ok") =>
          Finished /\ ~results[ri].success /\ Len(calls) = i + 1
\* The creation at i was the last call of the repository, which failed.
CreationFailedRepository(i) ==
    /\ Finished
    /\ ~results[ri].success
    /\ Len(calls) = i

\* C27 as the specification states it: a creation of the ref rejected with
\* 409 or with "already exists" is followed by a second read of the branch,
\* and the executor goes on as for a branch that was there; any other
\* rejection fails the repository.
C27_RaceOn409OrAlreadyExists ==
    \A i \in RefCreations :
       /\ calls[i].ans \in {"409", "422"} => RereadAndProceeded(i)
       /\ calls[i].ans \notin {"ok", "409", "422"} => CreationFailedRepository(i)

\* C27, amended: the rejection that stands for a branch created meanwhile is
\* the status 422 with "Reference already exists"; every other rejection,
\* 409 among them, fails the repository.
C27_RaceOnReferenceAlreadyExists ==
    \A i \in RefCreations :
       /\ calls[i].ans = "422" => RereadAndProceeded(i)
       /\ calls[i].ans \notin {"ok", "422"} => CreationFailedRepository(i)

\* The working branch was absent at both checks, another client created it
\* before the executor's create_git_ref, which the host rejected with 422;
\* the branch was read again and the repository ended with a pull request.
C27_Witness ==
    /\ Finished
    /\ \E i \in RefCreations :
          /\ calls[i].ans = "422"
          /\ calls[i - 1].op = "get_branch"
          /\ calls[i - 1].ans = "ok"
          /\ calls[i + 1].op = "get_branch"
          /\ calls[i + 1].ans = "ok"
    /\ ~HasBranch(loc.before, loc.branch)
    /\ results[ri].success
    /\ results[ri].pr_url # 0

\* The calls that ask the host to open the pull request.
PullCreations == {i \in 1..Len(calls) : calls[i].op = "create_pull"}
\* The urls of the pull requests open on the host for the executor's head
\* and base.
OpenUrls == {q.url : q \in OpenPrs(host, prf.head, prf.base)}
\* The call at i was rejected with "A pull request already exists".
RejectedAsExisting(i) == calls[i].ans = "exists"

\* The host call made by the step, when the step makes one.
CallMade == calls'[Len(calls')]
\* create_pull is answered "A pull request already exists": the pull requests
\* are listed a second time, nothing being returned yet.
RejectedCreateListsAgain ==
    (pc = "pr_create" /\ calls' # calls /\ CallMade.ans = "exists") =>
       /\ calls[Len(calls)].op = "get_pulls"
       /\ calls[Len(calls)].ans = "ok"
       /\ pc' = "pr_requery"
       /\ results' = results
\* The second listing is of the open pull requests of the same head, and
\* when it is answered and shows one, the url returned and carried by the
\* result of the repository is the url of a pull request it shows.
SecondListingGivesUrl ==
    (pc = "pr_requery" /\ calls' # calls) =>
       /\ CallMade.op = "get_pulls"
       /\ CallMade.br = calls[Len(calls)].br
       /\ Len(results') = ri
       /\ (CallMade.ans = "ok" /\ OpenUrls # {}) =>
             /\ prf'.url \in OpenUrls
             /\ results'[ri].pr_url = prf'.url

\* C28: when create_pull is rejected with "A pull request already exists",
\* the initial listing having shown none, the open pull requests are listed
\* a second time for the same head, and the url of the pull request found
\* there is the url returned, which is the pr_url of the repository's result.
C28_ConcurrentPullRequestUrl ==
    [][RejectedCreateListsAgain /\ SecondListingGivesUrl]_vars

\* Another client opened the pull request between the executor's listing and
\* its create_pull: the create was rejected, the second listing was answered
\* and the result carries the url of the other client's pull request.
C28_Witness ==
    /\ Finished
    /\ \E i \in PullCreations :
          /\ RejectedAsExisting(i)
          /\ Len(calls) = i + 1
          /\ calls[i + 1].op = "get_pulls"
          /\ calls[i + 1].ans = "ok"
    /\ OpenPrs(loc.before, prf.head, prf.base) = {}
    /\ results[ri].pr_url # 0
    /\ results[ri].pr_url \in OpenUrls

\* The reads of the target file on the working branch by which Remove learns
\* the hash to delete with.
HashReads ==
    {i \in 1..Len(calls) : /\ calls[i].op = "get_contents"
                            /\ calls[i].br = loc.branch
                            /\ calls[i].path = loc.path}

\* C29: Remove, the read of the target file on the working branch not
\* answered with the file (the file is not there, the path is a directory, or
\* the host fails the read): the repository ends at that read with success=false and without a
\* pull request, and neither a deletion nor a call on pull requests is made
\* for it.
C29_RemoveWithoutHashFails ==
    kind = "remove" =>
       \A i \in HashReads :
          calls[i].ans # "ok" =>
             /\ Len(calls) = i
             /\ Finished
             /\ ~results[ri].success
             /\ results[ri].pr_url = 0
             /\ \A j \in 1..Len(calls) :
                   calls[j].op \notin {"delete_file"} \cup PullRequestCalls
             /\ prf = EmptyPr

\* A Remove of a file that the default branch holds and the working branch,
\* cut before the file came to the default branch, does not: the read on the
\* working branch was answered 404 and the repository failed.
C29_Witness ==
    /\ kind = "remove"
    /\ Finished
    /\ Undisturbed
    /\ HasBranch(loc.before, loc.branch)
    /\ ~HasFile(loc.before, loc.branch, loc.path)
    /\ \E i \in HashReads : calls[i].ans = "404" /\ Len(calls) = i
    /\ ~results[ri].success

\* A Remove whose path names a directory has failed at the read of the hash.
DirectoryRemoveFailed ==
    /\ kind = "remove"
    /\ Finished
    /\ \E i \in HashReads : calls[i].ans = "dir"
    /\ HasLine(loc.log, "sha_error", Str("is a directory, not a file"))

\* The reads of the file of the running update_file on its target branch;
\* the first of them is the read of hash and existence.
FrameReads ==
    {i \in 1..Len(calls) : /\ calls[i].op = "get_contents"
                            /\ calls[i].br = uf.branch
                            /\ calls[i].path = uf.path}
FirstFrameRead == CHOOSE i \in FrameReads : \A j \in FrameReads : i <= j
\* The calls after i that write the file of the running update_file.
WritesAfter(i) ==
    {j \in (i + 1)..Len(calls) : /\ calls[j].path = uf.path
                                  /\ calls[j].op \in {"create_file", "update_file"}}
\* The call after i reads the file of the running update_file on branch b.
NextReads(i, b) ==
    /\ calls[i + 1].op = "get_contents"
    /\ calls[i + 1].br = b
    /\ calls[i + 1].path = uf.path
\* The content about to be written is the replacement applied to branch b's
\* copy, no one else having touched the repository meanwhile.
ReplacementOf(b) ==
    (pc = "uf_write" /\ Undisturbed) =>
       uf.toWrite = SearchReplace(uf, host.files[<<b, uf.path>>])
SearchReplaceFrame ==
    /\ kind = "update"
    /\ uf.mode = SearchMode
    /\ uf.branch # uf.fallback
    /\ FrameReads # {}

\* C30: update_file in search/replace mode.  The file found on the working
\* branch: the content is read there, never on the default branch, and the
\* replacement is applied to that copy.  The file absent on the working
\* branch: the default branch's copy is read, the replacement is applied to
\* it, and what is written is a create without a hash.  The file on neither
\* branch: the call returns success=false and writes nothing.
C30_SearchReplaceContentSource ==
    SearchReplaceFrame =>
       LET i == FirstFrameRead
       IN  /\ calls[i].ans = "ok" =>
                 /\ Len(calls) > i => NextReads(i, uf.branch)
                 /\ \A j \in (i + 1)..Len(calls) :
                       ~(calls[j].br = uf.fallback /\ calls[j].path = uf.path)
                 /\ ReplacementOf(uf.branch)
           /\ calls[i].ans = "404" =>
                 /\ Len(calls) > i => NextReads(i, uf.fallback)
                 /\ (Len(calls) > i /\ calls[i + 1].ans = "ok") =>
                       /\ ReplacementOf(uf.fallback)
                       /\ \A j \in WritesAfter(i) :
                             calls[j].op = "create_file" /\ calls[j].sha = NoSha
                 /\ (Len(calls) > i /\ calls[i + 1].ans # "ok") =>
                       /\ uf.done /\ ~uf.success
                       /\ uf.writes = 0
                       /\ WritesAfter(i) = {}

\* An Update in search/replace mode on a working branch that was cut before
\* the file came to the default branch: the file was read on the working
\* branch, not found, read on the default branch, and the replacement of that
\* copy was written to the working branch by a create without a hash.
C30_Witness ==
    /\ SearchReplaceFrame
    /\ Undisturbed
    /\ HasBranch(loc.before, uf.branch)
    /\ ~HasFile(loc.before, uf.branch, uf.path)
    /\ uf.done /\ uf.success
    /\ calls[FirstFrameRead].ans = "404"
    /\ Len(calls) > FirstFrameRead
    /\ NextReads(FirstFrameRead, uf.fallback)
    /\ calls[FirstFrameRead + 1].ans = "ok"
    /\ uf.toWrite = SearchReplace(uf, loc.before.files[<<uf.fallback, uf.path>>])
    /\ uf.toWrite # loc.before.files[<<uf.fallback, uf.path>>]
    /\ HasFile(host, uf.branch, uf.path)
    /\ host.files[<<uf.branch, uf.path>>] = uf.toWrite
    /\ \E j \in WritesAfter(FirstFrameRead) : calls[j].ans = "ok"

\* An Update in search/replace mode of a file that neither branch holds has
\* failed without a write.
OnNeitherBranch ==
    /\ SearchReplaceFrame
    /\ Undisturbed
    /\ calls[FirstFrameRead].ans = "404"
    /\ Len(calls) > FirstFrameRead
    /\ calls[FirstFrameRead + 1].ans = "404"
    /\ uf.done /\ ~uf.success

\* An Update that names no file, no glob of file names and no content query;
\* a directory to search in may be given.
NoTargetCriteria ==
    /\ kind = "update"
    /\ ri >= 1
    /\ Strip(cfg.file_path) = <<>>
    /\ cfg.filename_filter = <<>>
    /\ cfg.content_query = <<>>

\* C31: an Update without a file path, a glob of file names and a content
\* query is rejected as an error of the configuration before any call is
\* made to the host for the repository: the repository ends with
\* success=false and its list of host calls is empty throughout.
C31_NoCriteriaRejectedBeforeAnyCall ==
    NoTargetCriteria =>
       /\ calls = <<>>
       /\ Finished => ~results[ri].success

\* What holds of the code instead: the repository fails, and the only calls
\* made are the read of the repository and the locator's.
NoCriteriaRejectedBeforeBranch ==
    NoTargetCriteria =>
       /\ \A i \in 1..Len(calls) : calls[i].op \in {"get_repo", "find_target_files"}
       /\ Finished => ~results[ri].success
\* A directory alone was given: the repository was read and the locator
\* called before the rejection.
DirectoryOnlyRejected ==
    /\ NoTargetCriteria
    /\ cfg.target_path = <<"docs", "/">>
    /\ Finished
    /\ Len(calls) = 2
    /\ calls[2].op = "find_target_files"
    /\ ~results[ri].success

\* The last file of the list the locator returned.
LastTarget == loc.targets[Len(loc.targets)]

\* C32: Update over several files: the message of each commit holds the path
\* of the file committed in the place of {{file_path}}; the title and the
\* body of the pull request hold the path of the last file of the located
\* list, whatever became of that file.
C32_PerFileMessageLastFilePullRequest ==
    (MultiFileMode /\ ri >= 1) =>
       \A i \in 1..Len(calls) :
          /\ calls[i].op \in {"create_file", "update_file"} =>
                calls[i].msg = FieldWithPath("commit_message", calls[i].path)
          /\ calls[i].op = "create_pull" =>
                /\ calls[i].msg = FieldWithPath("pr_title", LastTarget)
                /\ prf.body = FieldWithPath("pr_body", LastTarget)

\* Two files were located; the first was committed under its own path, the
\* write of the last failed, and the pull request was opened under the path
\* of the last.
C32_Witness ==
    /\ MultiFileMode
    /\ Finished
    /\ loc.targets = <<OtherPath, OldPath>>
    /\ FileOutcomes(loc.log) = <<TRUE, FALSE>>
    /\ \E i \in 1..Len(calls) :
          /\ calls[i].op = "update_file"
          /\ calls[i].path = OtherPath
          /\ calls[i].ans = "ok"
          /\ calls[i].msg = <<"Change", " ">> \o OtherPath
    /\ \E i \in 1..Len(calls) :
          /\ calls[i].op = "create_pull"
          /\ calls[i].ans = "ok"
          /\ calls[i].msg = <<"PR", " ">> \o OldPath
    /\ prf.body = <<"files", " ">> \o OldPath

\* The executor-level handlers of a failed host call: the read of the
\* repository and the check of the working branch.
CaughtByExecutor == {"get_repo", "get_git_ref"}

\* C33: an exception raised while a repository is processed, by a call to
\* the host or by the handling of the parameters (a value of the form that is
\* None, such as the branch name), becomes the success=false result of that
\* repository: no exception leaves the executor, so the batch goes on to the
\* repositories after it.
C33_ExceptionBecomesFailure ==
    /\ pc # "raised"
    /\ (/\ Finished
        /\ calls # <<>>
        /\ calls[Len(calls)].op \in CaughtByExecutor
        /\ calls[Len(calls)].ans = "err") => ~results[ri].success

\* What holds of the code instead: an exception leaves the executor only on
\* a branch name that is None, and only in Update.
RaisedOnlyOnNoneBranchName ==
    pc = "raised" => (kind = "update" /\ cfg.branch_name = NoneValue)

\* The repositories of the batch other than the one at i.
OtherRepos(i) == (1..Len(repos)) \ {i}
\* No text of the sequence of lines lg holds the name of a repository other
\* than the one at i, and its only "action" line is the first, of i.
OwnLog(lg, i) ==
    /\ lg # <<>>
    /\ lg[1] = Line("action", repos[i].full_name)
    /\ \A k \in 2..Len(lg) : lg[k].tag # "action"
    /\ \A k \in 1..Len(lg), j \in OtherRepos(i) : ~Contains(lg[k].txt, repos[j].name)
\* The map of the repository at ri: the built-ins are its own unless a
\* definition took their name, the values of the definitions are read from
\* its own host, and file_path is bound only once the executor has its
\* parameters, to the path of the form as its own map resolves it.
OwnMap ==
    /\ \A k \in BuiltinNames :
          (k \in DOMAIN loc.resolved /\ \A j \in ExtractedDefs : defs[j].name # k) =>
             loc.resolved[k] = BuiltinPlaceholders(repo_info)[k]
    /\ \A j \in ExtractedDefs :
          (\A j2 \in ExtractedDefs : (j2 > j => defs[j2].name # defs[j].name)) =>
             loc.resolved[defs[j].name] = ValueOf(defs[j])
    /\ Str("file_path") \in DOMAIN loc.resolved =>
          /\ loc.params # EmptyParams
          /\ loc.resolved[Str("file_path")] =
                process_placeholders_in_string(
                   cfg.file_path,
                   [k \in (DOMAIN loc.resolved) \ {Str("file_path")} |-> loc.resolved[k]])
\* No host call of the repository at ri names another repository.
OwnCalls ==
    \A i \in 1..Len(calls), j \in OtherRepos(ri) :
       /\ ~Contains(calls[i].br, repos[j].name)
       /\ ~Contains(calls[i].path, repos[j].name)
       /\ ~Contains(calls[i].msg, repos[j].name)
       /\ ~Contains(prf.title, repos[j].name)
       /\ ~Contains(prf.body, repos[j].name)
Isolated ==
    /\ ri >= 1 => (OwnLog(loc.log, ri) /\ OwnMap /\ OwnCalls)
    /\ \A i \in 1..Len(results) : OwnLog(results[i].message, i)

\* C34: no step of a batch changes the list of placeholder definitions, the
\* dictionary of the form or the list of repositories, and the map, the log
\* and the host calls of every repository are its own: no value, no binding
\* of {{file_path}} and no log line of another repository is in them.
C34_NoLeakBetweenRepositories ==
    [][UNCHANGED inputs /\ Isolated']_vars

\* A batch of two repositories with a placeholder for the path ended with a
\* pull request for each, and the body of the second names the second.
C34_Witness ==
    /\ pc = "done"
    /\ Len(repos) = 2
    /\ defs = <<DefPath>>
    /\ results[1].success /\ results[1].pr_url # 0
    /\ results[2].success /\ results[2].pr_url # 0
    /\ prf.body = <<"in", " ">> \o repos[2].name
    /\ OwnLog(results[1].message, 1)
    /\ OwnLog(results[2].message, 2)

\* The file loop of Update ended with no file written and the pull request
\* was left out.
PullRequestSkipped ==
    /\ kind = "update"
    /\ Finished
    /\ HasLine(loc.log, "no_files_changed", <<>>)

C36_NoMutationOnDefaultBranch ==
    ri >= 1 =>
       \A i \in 1..Len(calls) :
          calls[i].op \in CommitCalls => calls[i].br # base_branch

\* What holds of the code instead: the branch of every mutation is the
\* branch the name of the form resolved to.
MutationOnResolvedBranch ==
    ri >= 1 =>
       \A i \in 1..Len(calls) :
          calls[i].op \in CommitCalls => calls[i].br = loc.branch
\* The name of the branch resolved to the default branch, which the check
\* found, and the file was deleted on the default branch.
DeletedOnDefaultBranch ==
    /\ kind = "remove"
    /\ Finished
    /\ loc.branch = base_branch
    /\ HasFile(loc.before, base_branch, loc.path)
    /\ ~HasFile(host, base_branch, loc.path)
    /\ results[ri].success

\* The calls of the update_file call in uf that the host accepted as a
\* deletion or a write of its file.
AcceptedInCall ==
    {i \in 1..Len(calls) : /\ calls[i].op \in CommitCalls
                           /\ calls[i].br = uf.branch
                           /\ calls[i].path = uf.path
                           /\ calls[i].ans = "ok"}

\* C37: when update_file returns success=False the call has left the file on
\* the working branch as it was: the host accepted no deletion and no write of
\* the file from this call, the delete-and-recreate of a force update
\* included.
C37_FailedUpdateLeavesFile ==
    uf.done /\ ~uf.success => AcceptedInCall = {}

\* What holds of the code instead: a failed call changed the file only by
\* the deletion of a force update whose re-creation was refused.
FailedUpdateDeletedAtMost ==
    uf.done /\ ~uf.success =>
       \A i \in AcceptedInCall :
          /\ calls[i].op = "delete_file"
          /\ uf.force /\ uf.conflict
          /\ i < Len(calls)
          /\ calls[i + 1].op = "create_file" /\ calls[i + 1].ans # "ok"
\* The deletion of a force update was accepted and the re-creation refused:
\* update_file returned success=False after it has deleted the file.
ForceDeleteWithoutRecreate ==
    /\ uf.done /\ ~uf.success
    /\ uf.deletes = 1
    /\ AcceptedInCall # {}

\* The hash of the file of the update_file call on its branch, at the host.
HashOnBranch ==
    IF HasBranch(host, uf.branch) /\ HasFile(host, uf.branch, uf.path)
    THEN Sha(host.files[<<uf.branch, uf.path>>]) ELSE NoSha
\* The call of the step is a first read of update_file, or the re-fetch of
\* a force update, that the host answered.
ReadAnswered ==
    /\ pc \in {"uf_read", "uf_force_refetch"}
    /\ Len(calls') = Len(calls) + 1
    /\ CallMade.ans \in {"ok", "404"}
    /\ ~uf'.done
\* The step is a write of update_file that names a hash: the update, or the
\* deletion of the force update.
HashedWrite ==
    /\ pc \in {"uf_write", "uf_force_delete"}
    /\ Len(calls') = Len(calls) + 1
    /\ CallMade.op \in {"update_file", "delete_file"}
\* The hash the call holds from its own reads of the target branch.
HashRead == IF pc = "uf_force_delete" THEN uf.delSha ELSE uf.sha
ReadKeepsHashOfBranch ==
    ReadAnswered =>
       /\ CallMade.br = uf.branch /\ CallMade.path = uf.path
       /\ (IF pc = "uf_read" THEN uf'.sha ELSE uf'.delSha) = HashOnBranch
WriteNamesHashRead ==
    HashedWrite =>
       /\ CallMade.sha = HashRead
       /\ CallMade.sha # NoSha
       /\ uf.appSha # HashRead => CallMade.sha # uf.appSha
KeepsHashRead ==
    (pc \in {"uf_sr_read", "uf_sr_fallback", "uf_write"} /\ pc' # "u_file")
       => /\ uf'.sha = uf.sha
          /\ (pc' = "uf_force_delete" => uf'.delSha = uf.sha)

MutatedPath == IF kind = "remove" THEN loc.path ELSE uf.path
\* A text of the form after the substitutions of the executor, with
\* {{file_path}} bound to path: Remove and Add substitute twice
\* (_process_action_params), Update once with the map of the file.
ExpectedText(t, path) ==
    LET m0 == [k \in (DOMAIN loc.resolved) \ {Str("file_path")} |-> loc.resolved[k]]
        m2 == BindFilePath(m0, path)
    IN  IF kind = "update" THEN process_placeholders_in_string(t, m2)
        ELSE process_placeholders_in_string(process_placeholders_in_string(t, m0), m2)
\* The commits of the executor that carry the message of the form.
FormCommits ==
    {i \in 1..Len(calls) : /\ calls[i].op \in CommitCalls
                           /\ calls[i].msg # Str("Forcing update")}
MessagesNameMutatedPath(kinds) ==
    (kind \in kinds /\ ri >= 1) =>
       /\ \A i \in FormCommits :
             calls[i].msg = ExpectedText(cfg.commit_message, calls[i].path)
       /\ (prf # EmptyPr /\ prf.head = loc.branch) =>
             /\ prf.title = ExpectedText(cfg.pr_title, MutatedPath)
             /\ prf.body = ExpectedText(cfg.pr_body, MutatedPath)

\* C39: in Remove, Update and Add the value {{file_path}} stands for in the
\* commit message and in the title and body of the pull request is the path
\* the file mutation is performed on, whatever the template of the path.
C39_FilePathIsMutatedPath == MessagesNameMutatedPath({"remove", "update", "add"})

\* What holds of the code instead: the two agree in Remove and Update, where
\* the path is not substituted again after {{file_path}} was bound.
FilePathIsMutatedPathButAdd == MessagesNameMutatedPath({"remove", "update"})
\* Add with {{file_path}} in the path of the form: the file was created under
\* a path that is not the one its commit message names.
AddMessageNamesOtherPath ==
    /\ kind = "add"
    /\ uf.done /\ uf.success
    /\ uf.path # loc.resolved[Str("file_path")]
    /\ \E i \in FormCommits :
          /\ calls[i].ans = "ok"
          /\ calls[i].msg = <<"Change", " ">> \o loc.resolved[Str("file_path")]
          /\ calls[i].path # loc.resolved[Str("file_path")]

\* The repository at ri has its result: success=True with the URL of a pull
\* request.
SucceededWithPullRequest ==
    /\ kind \in {"remove", "update", "add"}
    /\ Finished
    /\ results[ri].success
    /\ results[ri].pr_url # 0
\* The deletions and writes the host accepted on the working branch.
AcceptedMutations ==
    {i \in 1..Len(calls) : /\ calls[i].op \in CommitCalls
                           /\ calls[i].br = loc.branch
                           /\ calls[i].ans = "ok"}
\* The last deletion or write of the executor on the path of the call at i.
LastOnPath(i) ==
    CHOOSE j \in i..Len(calls) :
       /\ calls[j].op \in CommitCalls /\ calls[j].path = calls[i].path
       /\ \A k \in (j + 1)..Len(calls) :
             ~(calls[k].op \in CommitCalls /\ calls[k].path = calls[i].path)

\* C40: in Remove, Update and Add a result with success=True and the URL of
\* a pull request tells that in this run the host accepted at least one
\* deletion or write on the working branch and that no file operation of the
\* repository failed: every update_file returned success, and the last
\* deletion or write on every path was accepted.
C40_SuccessWithUrlMeansMutated ==
    SucceededWithPullRequest =>
       /\ AcceptedMutations # {}
       /\ \A k \in 1..Len(FileOutcomes(loc.log)) : FileOutcomes(loc.log)[k]
       /\ kind # "remove" => FileOutcomes(loc.log) # <<>>
       /\ \A i \in 1..Len(calls) :
             calls[i].op \in CommitCalls => calls[LastOnPath(i)].ans = "ok"

\* Update of two files: both writes were accepted, the pull request was
\* opened, and the result is success=True with its URL.
C40_Witness ==
    /\ kind = "update"
    /\ SucceededWithPullRequest
    /\ FileOutcomes(loc.log) = <<TRUE, TRUE>>
    /\ Cardinality(AcceptedMutations) = 2

====
